---- MODULE Spec2Model ----
(***************************************************************************)
(* State-machine model of the GNS3 Ansible modules gns3_project,           *)
(* gns3_node, gns3_snapshot, gns3_node_file and gns3_project_file.  A run  *)
(* of a module is a sequence of remote                                     *)
(* calls made through the gns3fy library against one GNS3 server; the      *)
(* model keeps the server's state, the library's local copy of the project *)
(* (the python object `project`), the module's parameters and result, and  *)
(* the log of the calls the run has issued.                                *)
(***************************************************************************)
EXTENDS Integers, Sequences, FiniteSets, TLC

\* ---------------------------------------------------------------- bounds
\* Nodes a project holds before a run; they are named 1..MaxNames.
MaxNames == 2
\* Node specs plus link specs a run is given (nodes_spec and links_spec).
MaxSpecs == 3
\* Consecutive runs of the module with the same parameters.
MaxRuns == 2
\* Snapshots a project may hold; they are numbered 1..MaxSnapshots.
MaxSnapshots == 2

\* ------------------------------------------------------ program constants
\* poll_wait_time=dict(type="int", default=5)
poll_wait_time == 5
\* nodes_delay=dict(type="int", default=10)
nodes_delay == 10
\* Mutant of AbsentPollWait: the teardown waits the task's poll_wait_time.
AbsentPollWaitDefault == poll_wait_time
\* project.stop_nodes(poll_wait_time=0) of state absent
AbsentPollWait == 0

\* ----------------------------------------------------------------- values
None == "none"
NodeStatuses == {"started", "stopped", "suspended"}
Names == 1 .. MaxNames
\* A node spec whose template the server does not know: creating it fails.
BadName == 0
\* The server makes a duplicate node name unique by appending a number.
RenameStep == 100

Node(n, s) == [name |-> n, status |-> s]
NodeSpecs == {[name |-> n] : n \in Names \cup {BadName}}
\* A link spec is <<node_a, port_a, node_b, port_b>>.
LinkSpecs == {<<1, 0, 2, 0>>, <<1, 1, 2, 1>>}

SeqsUpTo(S, n) == UNION {[1 .. k -> S] : k \in 0 .. n}
NamesOf(nodes) == {nodes[i].name : i \in DOMAIN nodes}
StatusesOf(nodes) == {nodes[i].status : i \in DOMAIN nodes}

Call(op, arg) == [op |-> op, arg |-> arg]
CallsOf(log, ops) == SelectSeq(log, LAMBDA c : c.op \in ops)

VARIABLES
  server,          \* the GNS3 server: up, exists, status, nodes, links
  module,          \* which module runs: "project" | "node" | "snapshot" | "node_file" | "project_file"
  state,           \* module.params["state"]
  nodes_state,     \* module.params["nodes_state"] (None when not given)
  nodes_strategy,  \* module.params["nodes_strategy"]
  nodes_spec,      \* module.params["nodes_spec"] (None is the empty list)
  links_spec,      \* module.params["links_spec"] (None is the empty list)
  retry,           \* gns3_node: module.params["retry"]
  force_project_open, \* gns3_node: module.params["force_project_open"]
  node_name,       \* gns3_node: module.params["node_name"]
  project,         \* the library's Project object: status, nodes, links
  node,            \* gns3_node: the library's Node object (name 0: None)
  pr_exists,       \* gns3_project: pr_exists
  changed,         \* result["changed"]
  pc,              \* position of the run in main()
  idx,             \* index of the for loop in progress
  already,         \* _nodes_already_created
  outcome,         \* "running" | "exit_json" | "fail_json" | "exception"
  calls,           \* the library calls the run has issued, in order
  mutated,         \* ghost: the run altered the server's state
  made,            \* ghost: the calls of the run that created a node or a link
  observed,        \* ghost: the project as the run first fetched it
  history,         \* results of the runs already finished
  snapshot_name,   \* gns3_snapshot: module.params["snapshot_name"] (0: None)
  snapshot_id,     \* gns3_snapshot: module.params["snapshot_id"] (0: None)
  snapshots,       \* the snapshots of the project on the server
  snapshot,        \* gns3_snapshot: the snapshot found by get_snapshot
  project_name,    \* module.params["project_name"] (0: None)
  project_id,      \* module.params["project_id"] (0: None)
  node_id,         \* gns3_node: module.params["node_id"] (0: None)
  runs,            \* concurrent runs of gns3_project: the locals of each
  check_mode,      \* gns3_project: module.check_mode
  data,            \* file modules: module.params["data"] (None when not given)
  remote_file,     \* file modules: the content at dest on the server
  file_data        \* file modules: file_data as get_file returned it

params == <<module, state, nodes_state, nodes_strategy, nodes_spec, links_spec,
            retry, force_project_open, node_name, snapshot_name, snapshot_id,
            project_name, project_id, node_id, check_mode, data>>
locals == <<project, node, pr_exists, changed, pc, idx, already, outcome,
            calls, mutated, made, observed>>
snap == <<snapshots, snapshot>>
files == <<remote_file, file_data>>
vars == <<server, params, locals, history, snap, runs, files>>

\* ----------------------------------------------------------- the server
NoProject == [up |-> TRUE, exists |-> FALSE, status |-> "closed",
              nodes |-> <<>>, links |-> {}]
NoNode == Node(0, None)
EmptyProject == [status |-> "closed", nodes |-> <<>>, links |-> {}]
Unobserved == [status |-> None, nodes |-> <<>>, links |-> {}]

\* snapshot_name=dict(type="str", default=None): the parameter is not given.
NotGiven == 0
Snapshots == 1 .. MaxSnapshots
\* A snapshot of the project: snapshot k has name k and snapshot_id k, and
\* holds the nodes the project had when it was taken.
Snapshot(k, nodes) == [snapshot_id |-> k, name |-> k, nodes |-> nodes]
\* get_snapshot returned None.
NoSnapshot == Snapshot(NotGiven, <<>>)

\* Node lists before a run: nodes 1..k in enumeration order.
NodeLists(statuses) ==
  UNION {{[i \in 1 .. k |-> Node(i, st[i])] : st \in [1 .. k -> statuses]}
         : k \in 0 .. MaxNames}
\* Links before a run: among nodes 1 and 2, no port used twice.
LinkSets(nodes) == IF Len(nodes) >= 2 THEN SUBSET LinkSpecs ELSE {{}}

Existing(statuses, withLinks) ==
  {[up |-> TRUE, exists |-> TRUE, status |-> t[1], nodes |-> t[2], links |-> t[3]]
   : t \in {u \in {"opened", "closed"} \X NodeLists(statuses) \X SUBSET LinkSpecs
            : u[3] \in (IF withLinks THEN LinkSets(u[2]) ELSE {{}})}}
\* A server that cannot be reached answers no call, whatever it holds.
Unreachable ==
  {[NoProject EXCEPT !.up = FALSE],
   [up |-> FALSE, exists |-> TRUE, status |-> "closed", nodes |-> <<>>, links |-> {}]}

\* What project.get() copies into the Project object.
Fetched(srv) == [status |-> srv.status, nodes |-> srv.nodes, links |-> srv.links]

StatusOf(nodes, name) ==
  LET i == CHOOSE j \in DOMAIN nodes : nodes[j].name = name IN nodes[i].status
SetNode(nodes, name, st) ==
  [i \in DOMAIN nodes |->
     IF nodes[i].name = name THEN [nodes[i] EXCEPT !.status = st] ELSE nodes[i]]
\* A bulk start/stop: the nodes of S have reached status st when the poll
\* wait ends, the others have not reacted yet.
SetStatuses(nodes, S, st) ==
  [i \in DOMAIN nodes |-> IF i \in S THEN [nodes[i] EXCEPT !.status = st] ELSE nodes[i]]

RECURSIVE UniqueName(_, _)
UniqueName(n, names) == IF n \in names THEN UniqueName(n + RenameStep, names) ELSE n

\* The server refuses a node whose template it does not know, and any node
\* of a project that is not opened.
CreateNodeFails(srv, node_spec) ==
  \/ ~srv.up
  \/ ~srv.exists
  \/ srv.status /= "opened"
  \/ node_spec.name = BadName
NewNode(nodes, node_spec) == Node(UniqueName(node_spec.name, NamesOf(nodes)), "stopped")

PortUsed(links, n, p) ==
  \E l \in links : (l[1] = n /\ l[2] = p) \/ (l[3] = n /\ l[4] = p)
\* gns3fy's Project.create_link: ValueError when a node is not found,
\* ValueError "At least one port is used" when a port is taken, else the
\* link is created.
LinkOutcome(link_spec, proj) ==
  IF ~({link_spec[1], link_spec[3]} \subseteq NamesOf(proj.nodes)) THEN "not_found"
  ELSE IF PortUsed(proj.links, link_spec[1], link_spec[2])
          \/ PortUsed(proj.links, link_spec[3], link_spec[4]) THEN "port_used"
  ELSE "created"

\* --------------------------------------------- gns3_project: decisions
Opposite(expected_nodes_state) ==
  IF expected_nodes_state = "started" THEN "stopped" ELSE "started"
\* Mutant of NodesNeedConverge: acts whenever some node is not in the
\* expected state, suspended nodes included.
NodesNotAllInState(expected_nodes_state, nodes) ==
  /\ expected_nodes_state \in {"started", "stopped"}
  /\ StatusesOf(nodes) \ {expected_nodes_state} /= {}
\* nodes_state_verification: any(status == <opposite> for status in nodes_statuses)
NodesNeedConverge(expected_nodes_state, nodes) ==
  /\ expected_nodes_state \in {"started", "stopped"}
  /\ Opposite(expected_nodes_state) \in StatusesOf(nodes)
\* Mutant of OneByOneActs: only nodes in the opposite state are acted on,
\* suspended nodes are skipped.
OneByOneActsOnOpposite(expected_nodes_state, status) ==
  status = Opposite(expected_nodes_state)
\* one_by_one: if node.status != "started" / if node.status != "stopped"
OneByOneActs(expected_nodes_state, status) == status /= expected_nodes_state
\* Mutant of BulkOp: the two branches call each other's bulk action.
BulkOpSwapped(expected_nodes_state) ==
  IF expected_nodes_state = "started" THEN "StopNodes" ELSE "StartNodes"
BulkOp(expected_nodes_state) ==
  IF expected_nodes_state = "started" THEN "StartNodes" ELSE "StopNodes"
NodeOp(expected_nodes_state) ==
  IF expected_nodes_state = "started" THEN "StartNode" ELSE "StopNode"
\* Mutant of NeedsOpen: the project is opened whatever its status.
NeedsOpenAlways(status) == status \in {"opened", "closed"}
\* if project.status != "opened"
NeedsOpen(status) == status /= "opened"
\* Mutant of NeedsClose: the project is closed whatever its status.
NeedsCloseAlways(status) == status \in {"opened", "closed"}
\* if project.status != "closed"
NeedsClose(status) == status /= "closed"
\* if node_spec["name"] not in _nodes_already_created
NodeMissing(node_spec, created) == node_spec.name \notin created
\* Mutant of create_link: every ValueError is fatal, port in use included.
create_link_strict(link_outcome) ==
  IF link_outcome = "created" THEN "True" ELSE "fail_json"
\* create_link(): True when created, False on "At least one port is used",
\* module.fail_json on any other error.
create_link(link_outcome) ==
  CASE link_outcome = "created" -> "True"
    [] link_outcome = "port_used" -> "False"
    [] OTHER -> "fail_json"

Running(m, label) == module = m /\ outcome = "running" /\ pc = label
Alters(srv) == mutated \/ srv /= server

\* One step of a run: the server and the Project object after it, the
\* result, the next position, and the calls it issued.
Step(srv, proj, ch, label, i, out, issued, created) ==
  /\ server' = srv
  /\ project' = proj
  /\ changed' = ch
  /\ pc' = label
  /\ idx' = i
  /\ outcome' = out
  /\ calls' = calls \o issued
  /\ mutated' = Alters(srv)
  /\ made' = made \o created
  /\ UNCHANGED <<runs, files, params, history, node, pr_exists, already, observed, snap>>

Opened(x) == [x EXCEPT !.status = "opened"]
Closed(x) == [x EXCEPT !.status = "closed"]

\* ------------------------------------------- references to the project
\* The project of the server has name TheProject and project_id TheProject;
\* node n has node_id n.
TheProject == 1
\* Mutant of ProjectKey: the id is preferred to the name.
ProjectKeyIdFirst(name, id) == IF id /= NotGiven THEN id ELSE name
\* if project_name is not None: Project(name=project_name, ...)
\* elif project_id is not None: Project(project_id=project_id, ...)
ProjectKey(name, id) == IF name /= NotGiven THEN name ELSE id
\* project.get() finds the project the Project object designates.
ProjectFound(srv) ==
  srv.up /\ srv.exists /\ ProjectKey(project_name, project_id) = TheProject
\* if node_name is not None: project.get_node(name=node_name)
\* elif node_id is not None: project.get_node(node_id=node_id)
NodeKey(name, id) == IF name /= NotGiven THEN name ELSE id

\* AnsibleModule(argument_spec, required_one_of=[["project_name",
\* "project_id"]] (and ["node_name", "node_id"] in gns3_node)): a task that
\* gives neither fails in the constructor.
validate_args ==
  /\ module \in {"project", "node"} /\ outcome = "running" /\ pc = "args"
  /\ IF \/ project_name = NotGiven /\ project_id = NotGiven
        \/ module = "node" /\ node_name = NotGiven /\ node_id = NotGiven
       THEN Step(server, project, changed, pc, idx, "fail_json", <<>>, <<>>)
       ELSE Step(server, project, changed, "get", idx, outcome, <<>>, <<>>)

\* ------------------------------------------------- gns3_project: main()
\* Mutant of check_mode_exit: check mode still fetches the project to
\* report on it.
check_mode_fetches ==
  /\ Running("project", "get") /\ check_mode
  /\ Step(server, project, changed, pc, idx, "exit_json",
          <<Call("GetProject", <<>>)>>, <<>>)
\* if module.check_mode: module.exit_json(**result)
check_mode_exit ==
  /\ Running("project", "get") /\ check_mode
  /\ Step(server, project, changed, pc, idx, "exit_json", <<>>, <<>>)

\* try: project.get(); pr_exists = True / except Exception: pr_exists = False
project_get ==
  /\ Running("project", "get") /\ ~check_mode
  /\ calls' = Append(calls, Call("GetProject", <<>>))
  /\ IF ProjectFound(server)
       THEN /\ project' = Fetched(server)
            /\ pr_exists' = TRUE
            /\ observed' = Fetched(server)
       ELSE /\ project' = project
            /\ pr_exists' = FALSE
            /\ observed' = observed
  /\ pc' = "main"
  /\ UNCHANGED <<server, runs, files, params, history, node, changed, idx, already, outcome,
                 mutated, made, snap>>

\* Mutant of opened_fail: the missing project is silently created.
opened_missing_creates ==
  /\ Running("project", "main") /\ state = "opened" /\ ~pr_exists
  /\ IF server.up
       THEN Step([server EXCEPT !.exists = TRUE, !.status = "opened"], project, TRUE,
                 "return", idx, outcome, <<Call("CreateProject", <<>>)>>, <<>>)
       ELSE Step(server, project, FALSE, pc, idx, "exception",
                 <<Call("CreateProject", <<>>)>>, <<>>)
\* state == "opened", project not found: module.fail_json(msg=reason, **result)
opened_fail ==
  /\ Running("project", "main") /\ state = "opened" /\ ~pr_exists
  /\ Step(server, project, changed, pc, idx, "fail_json", <<>>, <<>>)

\* if project.status != "opened": project.open(), then the nodes or changed
opened_open ==
  /\ Running("project", "main") /\ state = "opened" /\ pr_exists
  /\ NeedsOpen(project.status)
  /\ Step(Opened(server), Opened(project),
          IF nodes_state /= None THEN changed ELSE TRUE,
          IF nodes_state /= None THEN "nodes" ELSE "return",
          idx, outcome, <<Call("OpenProject", <<>>)>>, <<>>)

\* Mutant of opened_already: an open project is reported as changed when
\* no nodes_state is given, as after project.open().
opened_already_changed ==
  /\ Running("project", "main") /\ state = "opened" /\ pr_exists
  /\ ~NeedsOpen(project.status)
  /\ Step(server, project, IF nodes_state /= None THEN changed ELSE TRUE,
          IF nodes_state /= None THEN "nodes" ELSE "return",
          idx, outcome, <<>>, <<>>)
\* else: the project is open already
opened_already ==
  /\ Running("project", "main") /\ state = "opened" /\ pr_exists
  /\ ~NeedsOpen(project.status)
  /\ Step(server, project, changed,
          IF nodes_state /= None THEN "nodes" ELSE "return",
          idx, outcome, <<>>, <<>>)

\* nodes_state_verification: no node in the opposite state, return False
nodes_unchanged ==
  /\ Running("project", "nodes")
  /\ ~NodesNeedConverge(nodes_state, project.nodes)
  /\ Step(server, project, FALSE, "return", idx, outcome, <<>>, <<>>)

\* nodes_strategy == "all": project.start_nodes / project.stop_nodes, which
\* posts the bulk action, waits poll_wait_time and fetches the nodes again
nodes_all ==
  /\ Running("project", "nodes")
  /\ NodesNeedConverge(nodes_state, project.nodes)
  /\ nodes_strategy = "all"
  /\ \E S \in SUBSET DOMAIN server.nodes :
       LET after == SetStatuses(server.nodes, S, nodes_state) IN
         Step([server EXCEPT !.nodes = after], [project EXCEPT !.nodes = after],
              TRUE, "return", idx, outcome,
              <<Call(BulkOp(nodes_state), <<poll_wait_time>>)>>, <<>>)

\* project.start_nodes / project.stop_nodes raises: the server refused the
\* action on a node. Nothing in nodes_state_verification or main catches it;
\* the nodes of S had reacted before.
nodes_all_fails ==
  /\ Running("project", "nodes")
  /\ NodesNeedConverge(nodes_state, project.nodes)
  /\ nodes_strategy = "all"
  /\ \E S \in SUBSET DOMAIN server.nodes :
       S /= DOMAIN server.nodes
       /\ Step([server EXCEPT !.nodes = SetStatuses(server.nodes, S, nodes_state)],
               project, FALSE, pc, idx, "exception",
               <<Call(BulkOp(nodes_state), <<poll_wait_time>>)>>, <<>>)

\* nodes_strategy == "one_by_one": enter the for loop over project.nodes
nodes_one_by_one ==
  /\ Running("project", "nodes")
  /\ NodesNeedConverge(nodes_state, project.nodes)
  /\ nodes_strategy = "one_by_one"
  /\ Step(server, project, changed, "one_by_one", 1, outcome, <<>>, <<>>)

\* for node in project.nodes: if node.status != target: node.start()/stop();
\* time.sleep(nodes_delay)
one_by_one_node ==
  /\ Running("project", "one_by_one")
  /\ idx <= Len(project.nodes)
  /\ LET n == project.nodes[idx] IN
       IF OneByOneActs(nodes_state, n.status)
         THEN \E reacts \in BOOLEAN :
                LET st == IF reacts THEN nodes_state ELSE StatusOf(server.nodes, n.name) IN
                  Step([server EXCEPT !.nodes = SetNode(@, n.name, st)],
                       [project EXCEPT !.nodes = SetNode(@, n.name, st)],
                       changed, pc, idx + 1, outcome,
                       <<Call(NodeOp(nodes_state), <<n.name>>),
                         Call("Sleep", <<nodes_delay>>)>>, <<>>)
         ELSE Step(server, project, changed, pc, idx + 1, outcome, <<>>, <<>>)

\* Mutant of one_by_one_node_fails: the failure of a node is swallowed and
\* the loop goes on to the next node.
one_by_one_node_skips ==
  /\ Running("project", "one_by_one")
  /\ idx <= Len(project.nodes)
  /\ OneByOneActs(nodes_state, project.nodes[idx].status)
  /\ Step(server, project, changed, pc, idx + 1, outcome,
          <<Call(NodeOp(nodes_state), <<project.nodes[idx].name>>)>>, <<>>)
\* node.start() / node.stop() raises: the server refused the action. The
\* exception leaves the loop, nodes_state_verification and main.
one_by_one_node_fails ==
  /\ Running("project", "one_by_one")
  /\ idx <= Len(project.nodes)
  /\ OneByOneActs(nodes_state, project.nodes[idx].status)
  /\ Step(server, project, FALSE, pc, idx, "exception",
          <<Call(NodeOp(nodes_state), <<project.nodes[idx].name>>)>>, <<>>)

\* Mutant of one_by_one_done: the loop reports nothing, changed is left as
\* it was.
one_by_one_done_quiet ==
  /\ Running("project", "one_by_one")
  /\ idx > Len(project.nodes)
  /\ Step(server, project, changed, "return", idx, outcome, <<>>, <<>>)
\* the loop is over: return True
one_by_one_done ==
  /\ Running("project", "one_by_one")
  /\ idx > Len(project.nodes)
  /\ Step(server, project, TRUE, "return", idx, outcome, <<>>, <<>>)

\* state == "closed": if project.status != "closed": project.close()
closed_close ==
  /\ Running("project", "main") /\ state = "closed" /\ pr_exists
  /\ NeedsClose(project.status)
  /\ Step(Closed(server), Closed(project), TRUE, "return", idx, outcome,
          <<Call("CloseProject", <<>>)>>, <<>>)

closed_already ==
  /\ Running("project", "main") /\ state = "closed" /\ pr_exists
  /\ ~NeedsClose(project.status)
  /\ Step(server, project, changed, "return", idx, outcome, <<>>, <<>>)

closed_fail ==
  /\ Running("project", "main") /\ state = "closed" /\ ~pr_exists
  /\ Step(server, project, changed, pc, idx, "fail_json", <<>>, <<>>)

\* state == "present", project found: _nodes_already_created
present_begin ==
  /\ Running("project", "main") /\ state = "present" /\ pr_exists
  /\ already' = NamesOf(project.nodes)
  /\ pc' = "ensure_nodes"
  /\ idx' = 1
  /\ UNCHANGED <<server, runs, files, params, history, project, node, pr_exists, changed,
                 outcome, calls, mutated, made, observed, snap>>

\* for node_spec in nodes_spec: if the name is not in _nodes_already_created:
\* project.open(); create_node(node_spec, project, module); changed = True
ensure_node ==
  /\ Running("project", "ensure_nodes")
  /\ idx <= Len(nodes_spec)
  /\ LET node_spec == nodes_spec[idx]
         srv == Opened(server)
         issued == <<Call("OpenProject", <<>>), Call("CreateNode", <<node_spec.name>>)>>
         n == NewNode(srv.nodes, node_spec)
     IN  IF ~NodeMissing(node_spec, already)
           THEN Step(server, project, changed, pc, idx + 1, outcome, <<>>, <<>>)
         ELSE IF CreateNodeFails(srv, node_spec)
           THEN Step(srv, Opened(project), FALSE, pc, idx, "fail_json", issued, <<>>)
         ELSE Step([srv EXCEPT !.nodes = Append(@, n)],
                   [Opened(project) EXCEPT !.nodes = Append(@, n)],
                   TRUE, pc, idx + 1, outcome, issued,
                   <<Call("CreateNode", <<node_spec.name>>)>>)

ensure_nodes_done ==
  /\ Running("project", "ensure_nodes")
  /\ idx > Len(nodes_spec)
  /\ Step(server, project, changed, "ensure_links", 1, outcome, <<>>, <<>>)

\* for link_spec in links_spec: project.open(); project.get();
\* created = create_link(link_spec, project, module); if created: changed = True
ensure_link ==
  /\ Running("project", "ensure_links")
  /\ idx <= Len(links_spec)
  /\ LET link_spec == links_spec[idx]
         srv == Opened(server)
         proj == Fetched(srv)
         issued == <<Call("OpenProject", <<>>), Call("GetProject", <<>>),
                     Call("CreateLink", link_spec)>>
         link_outcome == LinkOutcome(link_spec, proj)
         created == create_link(link_outcome)
         links == IF link_outcome = "created" THEN proj.links \cup {link_spec} ELSE proj.links
         new == IF link_outcome = "created" THEN <<Call("CreateLink", link_spec)>> ELSE <<>>
     IN  IF created = "fail_json"
           THEN Step(srv, proj, FALSE, pc, idx, "fail_json", issued, <<>>)
           ELSE Step([srv EXCEPT !.links = links], [proj EXCEPT !.links = links],
                     IF created = "True" THEN TRUE ELSE changed,
                     pc, idx + 1, outcome, issued, new)

ensure_links_done ==
  /\ Running("project", "ensure_links")
  /\ idx > Len(links_spec)
  /\ Step(server, project, changed, "return", idx, outcome, <<>>, <<>>)

\* The project project.create() leaves on the server: empty and opened.
FreshProject == [up |-> TRUE, exists |-> TRUE, status |-> "opened",
                 nodes |-> <<>>, links |-> {}]
\* Mutant of FreshChanged: changed only when a node or a link was created.
ChangedIfCreated == made /= <<>>
\* result["changed"] = True at the end of the creation branch
FreshChanged == TRUE

\* state == "present", pr_exists false: project.create(), outside any try
project_create ==
  /\ Running("project", "main") /\ state = "present" /\ ~pr_exists
  /\ IF ~server.up \/ server.exists
       THEN Step(server, project, FALSE, pc, idx, "exception",
                 <<Call("CreateProject", <<>>)>>, <<>>)
       ELSE Step(FreshProject, Fetched(FreshProject), changed, "create_nodes", 1,
                 outcome, <<Call("CreateProject", <<>>)>>, <<>>)

\* Mutant of create_node: a node the server refuses is skipped and the loop
\* goes on.
create_node_tolerant ==
  /\ Running("project", "create_nodes")
  /\ idx <= Len(nodes_spec)
  /\ LET node_spec == nodes_spec[idx]
         issued == <<Call("CreateNode", <<node_spec.name>>)>>
         n == NewNode(server.nodes, node_spec)
     IN  IF CreateNodeFails(server, node_spec)
           THEN Step(server, project, changed, pc, idx + 1, outcome, issued, <<>>)
           ELSE Step([server EXCEPT !.nodes = Append(@, n)],
                     [project EXCEPT !.nodes = Append(@, n)],
                     changed, pc, idx + 1, outcome, issued, issued)
\* for node_spec in nodes_spec: create_node(node_spec, project, module)
create_node ==
  /\ Running("project", "create_nodes")
  /\ idx <= Len(nodes_spec)
  /\ LET node_spec == nodes_spec[idx]
         issued == <<Call("CreateNode", <<node_spec.name>>)>>
         n == NewNode(server.nodes, node_spec)
     IN  IF CreateNodeFails(server, node_spec)
           THEN Step(server, project, FALSE, pc, idx, "fail_json", issued, <<>>)
           ELSE Step([server EXCEPT !.nodes = Append(@, n)],
                     [project EXCEPT !.nodes = Append(@, n)],
                     changed, pc, idx + 1, outcome, issued, issued)

create_nodes_done ==
  /\ Running("project", "create_nodes")
  /\ idx > Len(nodes_spec)
  /\ Step(server, project, changed, "create_links", 1, outcome, <<>>, <<>>)

\* for link_spec in links_spec: create_link(link_spec, project, module)
create_links ==
  /\ Running("project", "create_links")
  /\ idx <= Len(links_spec)
  /\ LET link_spec == links_spec[idx]
         issued == <<Call("CreateLink", link_spec)>>
         link_outcome == LinkOutcome(link_spec, project)
         created == create_link(link_outcome)
         links == IF link_outcome = "created" THEN project.links \cup {link_spec}
                  ELSE project.links
         new == IF link_outcome = "created" THEN <<Call("CreateLink", link_spec)>> ELSE <<>>
     IN  IF created = "fail_json"
           THEN Step(server, project, FALSE, pc, idx, "fail_json", issued, <<>>)
           ELSE Step([server EXCEPT !.links = links], [project EXCEPT !.links = links],
                     changed, pc, idx + 1, outcome, issued, new)

create_links_done ==
  /\ Running("project", "create_links")
  /\ idx > Len(links_spec)
  /\ Step(server, project, FreshChanged, "return", idx, outcome, <<>>, <<>>)

\* state == "absent": if project.status != "opened": project.open()
absent_open ==
  /\ Running("project", "main") /\ state = "absent" /\ pr_exists
  /\ NeedsOpen(project.status)
  /\ Step(Opened(server), Opened(project), changed, "stop_nodes", idx, outcome,
          <<Call("OpenProject", <<>>)>>, <<>>)

\* project.stop_nodes(poll_wait_time=0)
absent_stop_nodes ==
  /\ \/ Running("project", "stop_nodes")
     \/ /\ Running("project", "main") /\ state = "absent" /\ pr_exists
        /\ ~NeedsOpen(project.status)
  /\ \E S \in SUBSET DOMAIN server.nodes :
       LET after == SetStatuses(server.nodes, S, "stopped") IN
         Step([server EXCEPT !.nodes = after], [project EXCEPT !.nodes = after],
              changed, "delete", idx, outcome,
              <<Call("StopNodes", <<AbsentPollWait>>)>>, <<>>)

\* project.delete(); result["changed"] = True
absent_delete ==
  /\ Running("project", "delete")
  /\ Step(NoProject, project, TRUE, "return", idx, outcome,
          <<Call("DeleteProject", <<>>)>>, <<>>)

\* Mutant of absent_missing: the missing project is reported as a failure,
\* as states opened and closed do.
absent_missing_fails ==
  /\ Running("project", "main") /\ state = "absent" /\ ~pr_exists
  /\ Step(server, project, changed, pc, idx, "fail_json", <<>>, <<>>)
\* state == "absent", project not found: module.exit_json(**result)
absent_missing ==
  /\ Running("project", "main") /\ state = "absent" /\ ~pr_exists
  /\ Step(server, project, changed, pc, idx, "exit_json", <<>>, <<>>)

\* result["project"] = return_project_data(project); module.exit_json(**result)
return_project_data ==
  /\ Running("project", "return")
  /\ Step(server, project, changed, pc, idx, "exit_json", <<>>, <<>>)

\* ------------------------------------------------------------------ runs
\* The same task is run again: same parameters, the server as the run left it.
rerun ==
  /\ outcome /= "running"
  /\ Len(history) + 1 < MaxRuns
  /\ history' = Append(history, [outcome |-> outcome, changed |-> changed,
                                 nodes |-> server.nodes])
  /\ project' = EmptyProject
  /\ node' = NoNode
  /\ pr_exists' = FALSE
  /\ changed' = FALSE
  /\ pc' = "get"
  /\ idx' = 0
  /\ already' = {}
  /\ outcome' = "running"
  /\ calls' = <<>>
  /\ mutated' = FALSE
  /\ made' = <<>>
  /\ observed' = Unobserved
  /\ snapshot' = NoSnapshot
  /\ file_data' = None
  /\ UNCHANGED <<server, runs, params, snapshots, remote_file>>

InitRun ==
  /\ project = EmptyProject
  /\ node = NoNode
  /\ pr_exists = FALSE
  /\ changed = FALSE
  /\ pc = "get"
  /\ idx = 0
  /\ already = {}
  /\ outcome = "running"
  /\ calls = <<>>
  /\ mutated = FALSE
  /\ made = <<>>
  /\ observed = Unobserved
  /\ history = <<>>
  /\ snapshot = NoSnapshot
  /\ file_data = None
  /\ runs = <<>>

\* nodes_spec and links_spec of at most MaxSpecs specs together.
SpecLists ==
  {p \in SeqsUpTo(NodeSpecs, MaxSpecs) \X SeqsUpTo(LinkSpecs, MaxSpecs)
   : Len(p[1]) + Len(p[2]) <= MaxSpecs}

\* gns3_project. nodes_state and nodes_strategy are given with state opened or
\* closed, nodes_spec and links_spec with state present, as documented.  The
\* present branch reads the nodes' names only, the other branches no link.
Init ==
  /\ module = "project"
  /\ retry = FALSE /\ force_project_open = FALSE /\ node_name = 0
  /\ project_name = TheProject /\ project_id = NotGiven /\ node_id = NotGiven
  /\ check_mode = FALSE
  /\ data = None /\ remote_file = None
  /\ snapshot_name = NotGiven /\ snapshot_id = NotGiven /\ snapshots = {}
  /\ state \in {"opened", "closed", "present", "absent"}
  /\ \/ /\ state \in {"opened", "closed"}
        /\ nodes_state \in {None, "started", "stopped"}
        /\ nodes_strategy \in {"all", "one_by_one"}
        /\ nodes_spec = <<>> /\ links_spec = <<>>
        /\ server \in Existing(NodeStatuses, FALSE) \cup {NoProject} \cup Unreachable
     \/ /\ state = "present"
        /\ nodes_state = None /\ nodes_strategy = "all"
        /\ \E p \in SpecLists : nodes_spec = p[1] /\ links_spec = p[2]
        /\ server \in Existing({"stopped"}, TRUE) \cup {NoProject} \cup Unreachable
     \/ /\ state = "absent"
        /\ nodes_state = None /\ nodes_strategy = "all"
        /\ nodes_spec = <<>> /\ links_spec = <<>>
        /\ server \in Existing(NodeStatuses, FALSE) \cup {NoProject} \cup Unreachable
  /\ InitRun

Next ==
  \/ project_get
  \/ opened_fail \/ opened_open \/ opened_already
  \/ nodes_unchanged \/ nodes_all \/ nodes_all_fails \/ nodes_one_by_one
  \/ one_by_one_node \/ one_by_one_node_fails \/ one_by_one_done
  \/ closed_close \/ closed_already \/ closed_fail
  \/ present_begin \/ ensure_node \/ ensure_nodes_done
  \/ ensure_link \/ ensure_links_done
  \/ project_create \/ create_node \/ create_nodes_done
  \/ create_links \/ create_links_done
  \/ absent_open \/ absent_stop_nodes \/ absent_delete \/ absent_missing
  \/ return_project_data
  \/ rerun

Spec == Init /\ [][Next]_vars

\* ---------------------------------------------------- gns3_node: main()
NodeActions == {"StartNode", "StopNode", "SuspendNode", "ReloadNode"}
ActionOp(expected_state) ==
  CASE expected_state = "started" -> "StartNode"
    [] expected_state = "stopped" -> "StopNode"
    [] expected_state = "suspended" -> "SuspendNode"
    [] OTHER -> "ReloadNode"
\* Mutant of NeedsAction: the status is not compared.
NeedsActionAlways(expected_state, status) ==
  expected_state \in {"started", "stopped", "suspended"}
\* state_verification: expected_state == s and node.status != s
NeedsAction(expected_state, status) ==
  /\ expected_state \in {"started", "stopped", "suspended"}
  /\ status /= expected_state
\* Mutant of NeedsRetry: the retry flag is not consulted.
NeedsRetryAlways(expected_state, status, again) == status /= expected_state
\* if node.status != expected_state and retry
NeedsRetry(expected_state, status, again) == status /= expected_state /\ again

NodeStep(srv, proj, nd, ch, label, out, issued) ==
  /\ server' = srv
  /\ project' = proj
  /\ node' = nd
  /\ changed' = ch
  /\ pc' = label
  /\ outcome' = out
  /\ calls' = calls \o issued
  /\ mutated' = Alters(srv)
  /\ UNCHANGED <<runs, files, params, history, pr_exists, idx, already, made,
                 observed, snap>>

\* project.get() inside the try: any exception ends in module.fail_json
node_project_get ==
  /\ Running("node", "get")
  /\ calls' = Append(calls, Call("GetProject", <<>>))
  /\ IF ProjectFound(server)
       THEN /\ project' = Fetched(server)
            /\ observed' = Fetched(server)
            /\ pc' = "open"
            /\ outcome' = outcome
       ELSE /\ project' = project
            /\ observed' = observed
            /\ pc' = pc
            /\ outcome' = "fail_json"
  /\ UNCHANGED <<server, runs, files, params, history, node, pr_exists, changed, idx, already,
                 mutated, made, snap>>

\* if project.status != "opened" and force_project_open: project.open()
node_project_open ==
  /\ Running("node", "open")
  /\ NeedsOpen(project.status) /\ force_project_open
  /\ Step(Opened(server), Opened(project), changed, "node", idx, outcome,
          <<Call("OpenProject", <<>>)>>, <<>>)

\* node = project.get_node(name=node_name); if node is None: module.fail_json
node_retrieve ==
  /\ \/ Running("node", "node")
     \/ Running("node", "open") /\ ~(NeedsOpen(project.status) /\ force_project_open)
  /\ calls' = Append(calls, Call("GetNode", <<NodeKey(node_name, node_id)>>))
  /\ IF NodeKey(node_name, node_id) \in NamesOf(project.nodes)
       THEN /\ node' = Node(NodeKey(node_name, node_id),
                            StatusOf(project.nodes, NodeKey(node_name, node_id)))
            /\ pc' = "verify"
            /\ outcome' = outcome
       ELSE /\ node' = node
            /\ pc' = pc
            /\ outcome' = "fail_json"
  /\ UNCHANGED <<server, runs, files, params, history, project, pr_exists, changed, idx,
                 already, mutated, made, observed, snap>>

\* The server after a node action: it refuses the action in a project that
\* is not opened (the library raises), and the node may not have reached
\* the status when the call returns.
NodeAction(op, st, label, ch) ==
  IF server.status /= "opened"
    THEN NodeStep(server, project, node, FALSE, pc, "exception", <<Call(op, <<node.name>>)>>)
    ELSE \E reacts \in BOOLEAN :
           LET now == IF reacts THEN st ELSE StatusOf(server.nodes, node.name) IN
             NodeStep([server EXCEPT !.nodes = SetNode(@, node.name, now)],
                      [project EXCEPT !.nodes = SetNode(@, node.name, now)],
                      [node EXCEPT !.status = now], ch, label, outcome,
                      <<Call(op, <<node.name>>)>>)

\* node.start() / node.stop() / node.suspend() when the status differs
state_verification ==
  /\ Running("node", "verify")
  /\ NeedsAction(state, node.status)
  /\ NodeAction(ActionOp(state), state, "retry", changed)

\* Mutant of state_verification_retry: the action is issued twice more.
state_verification_retry_twice ==
  /\ Running("node", "retry")
  /\ NeedsRetry(state, node.status, retry)
  /\ NodeStep(server, project, node, TRUE, "return", outcome,
              <<Call(ActionOp(state), <<node.name>>),
                Call(ActionOp(state), <<node.name>>)>>)
\* if node.status != expected_state and retry: the action once more
state_verification_retry ==
  /\ Running("node", "retry")
  /\ NeedsRetry(state, node.status, retry)
  /\ NodeAction(ActionOp(state), state, "return", TRUE)

\* return True
state_verification_true ==
  /\ Running("node", "retry")
  /\ ~NeedsRetry(state, node.status, retry)
  /\ NodeStep(server, project, node, TRUE, "return", outcome, <<>>)

\* return False
state_verification_false ==
  /\ Running("node", "verify")
  /\ state /= "reload"
  /\ ~NeedsAction(state, node.status)
  /\ NodeStep(server, project, node, FALSE, "return", outcome, <<>>)

\* expected_state == "reload": node.reload()
reload ==
  /\ Running("node", "verify")
  /\ state = "reload"
  /\ IF server.status /= "opened"
       THEN NodeStep(server, project, node, FALSE, pc, "exception",
                     <<Call("ReloadNode", <<node.name>>)>>)
       ELSE \E now \in {"started", StatusOf(server.nodes, node.name)} :
              NodeStep([server EXCEPT !.nodes = SetNode(@, node.name, now)],
                       project, node, changed, "reload_get", outcome,
                       <<Call("ReloadNode", <<node.name>>)>>)

\* Mutant of reload_get: the node is fetched again without waiting.
reload_get_nowait ==
  /\ Running("node", "reload_get")
  /\ LET now == StatusOf(server.nodes, node.name) IN
       NodeStep(server, [project EXCEPT !.nodes = SetNode(@, node.name, now)],
                [node EXCEPT !.status = now], changed, "reload_retry", outcome,
                <<Call("GetNode", <<node.name>>)>>)

\* time.sleep(poll_wait_time); node.get()
reload_get ==
  /\ Running("node", "reload_get")
  /\ LET now == StatusOf(server.nodes, node.name) IN
       NodeStep(server, [project EXCEPT !.nodes = SetNode(@, node.name, now)],
                [node EXCEPT !.status = now], changed, "reload_retry", outcome,
                <<Call("Sleep", <<poll_wait_time>>), Call("GetNode", <<node.name>>)>>)

\* if node.status != "started" and retry: node.start()
reload_start ==
  /\ Running("node", "reload_retry")
  /\ NeedsRetry("started", node.status, retry)
  /\ NodeAction("StartNode", "started", "return", TRUE)

\* Mutant of reload_true: a reload that needs no start reports no change.
reload_unchanged ==
  /\ Running("node", "reload_retry")
  /\ ~NeedsRetry("started", node.status, retry)
  /\ NodeStep(server, project, node, FALSE, "return", outcome, <<>>)

\* return True
reload_true ==
  /\ Running("node", "reload_retry")
  /\ ~NeedsRetry("started", node.status, retry)
  /\ NodeStep(server, project, node, TRUE, "return", outcome, <<>>)

\* result["node"] = return_node_data(node); module.exit_json(**result)
return_node_data ==
  /\ Running("node", "return")
  /\ NodeStep(server, project, node, changed, pc, "exit_json", <<>>)

NodeInit ==
  /\ module = "node"
  /\ state \in {"started", "stopped", "suspended", "reload"}
  /\ retry \in BOOLEAN
  /\ force_project_open \in BOOLEAN
  /\ node_name \in Names
  /\ project_name = TheProject /\ project_id = NotGiven /\ node_id = NotGiven
  /\ check_mode = FALSE
  /\ data = None /\ remote_file = None
  /\ snapshot_name = NotGiven /\ snapshot_id = NotGiven /\ snapshots = {}
  /\ nodes_state = None /\ nodes_strategy = "all"
  /\ nodes_spec = <<>> /\ links_spec = <<>>
  /\ server \in Existing(NodeStatuses, FALSE) \cup {NoProject} \cup Unreachable
  /\ InitRun

NodeNext ==
  \/ node_project_get \/ node_project_open \/ node_retrieve
  \/ state_verification \/ state_verification_retry
  \/ state_verification_true \/ state_verification_false
  \/ reload \/ reload_get \/ reload_start \/ reload_true
  \/ return_node_data
  \/ rerun

NodeSpec == NodeInit /\ [][NodeNext]_vars

\* ------------------------------------------------ gns3_snapshot: main()
\* project.get_snapshot(name=snapshot_name, snapshot_id=snapshot_id): the
\* snapshot designated by the id, or by the name when no id is given; None
\* when the project has no such snapshot.
get_snapshot(snaps, name, id) ==
  LET found == {s \in snaps : IF id /= NotGiven THEN s.snapshot_id = id
                                               ELSE s.name = name}
  IN  IF found = {} THEN NoSnapshot ELSE CHOOSE s \in found : TRUE
\* if snapshot is None / if not snapshot
NotFound(s) == s = NoSnapshot
SnapshotRef == <<snapshot_name, snapshot_id>>

SnapStep(srv, snaps, ch, label, out, issued, alters) ==
  /\ server' = srv /\ snapshots' = snaps /\ changed' = ch /\ pc' = label
  /\ outcome' = out /\ calls' = calls \o issued
  /\ mutated' = (mutated \/ alters)
  /\ UNCHANGED <<runs, files, params, history, project, node, pr_exists, idx, already, made,
                 observed, snapshot>>

\* project.get() inside the try: any exception ends in module.fail_json
snapshot_project_get ==
  /\ Running("snapshot", "get")
  /\ calls' = Append(calls, Call("GetProject", <<>>))
  /\ IF ProjectFound(server)
       THEN /\ project' = Fetched(server)
            /\ observed' = Fetched(server)
            /\ pc' = "get_snapshot"
            /\ outcome' = outcome
       ELSE /\ project' = project
            /\ observed' = observed
            /\ pc' = pc
            /\ outcome' = "fail_json"
  /\ UNCHANGED <<server, runs, files, params, history, node, pr_exists, changed, idx, already,
                 mutated, made, snap>>

\* snapshot = project.get_snapshot(name=snapshot_name, snapshot_id=snapshot_id)
snapshot_lookup ==
  /\ Running("snapshot", "get_snapshot")
  /\ snapshot' = get_snapshot(snapshots, snapshot_name, snapshot_id)
  /\ calls' = Append(calls, Call("GetSnapshot", SnapshotRef))
  /\ pc' = "main"
  /\ UNCHANGED <<server, runs, files, params, history, project, node, pr_exists, changed, idx,
                 already, outcome, mutated, made, observed, snapshots>>

\* Mutant of snapshot_present_found: a snapshot that exists is taken again.
snapshot_present_retaken ==
  /\ Running("snapshot", "main") /\ state = "present"
  /\ ~NotFound(snapshot)
  /\ SnapStep(server, snapshots, TRUE, "exit", outcome,
              <<Call("CreateSnapshot", <<snapshot.name>>)>>, TRUE)
\* state == "present", the snapshot exists: result["snapshot"] = snapshot
snapshot_present_found ==
  /\ Running("snapshot", "main") /\ state = "present"
  /\ ~NotFound(snapshot)
  /\ SnapStep(server, snapshots, changed, "exit", outcome, <<>>, FALSE)

\* if not snapshot_name: module.fail_json("Need to specify snapshot name ...")
snapshot_present_need_name ==
  /\ Running("snapshot", "main") /\ state = "present"
  /\ NotFound(snapshot) /\ snapshot_name = NotGiven
  /\ SnapStep(server, snapshots, changed, pc, "fail_json", <<>>, FALSE)

\* project.create_snapshot(name=snapshot_name); result["changed"] = True;
\* result["snapshot"] = project.get_snapshot(...)
snapshot_present_create ==
  /\ Running("snapshot", "main") /\ state = "present"
  /\ NotFound(snapshot) /\ snapshot_name /= NotGiven
  /\ SnapStep(server, snapshots \cup {Snapshot(snapshot_name, server.nodes)},
              TRUE, "exit", outcome,
              <<Call("CreateSnapshot", <<snapshot_name>>),
                Call("GetSnapshot", SnapshotRef)>>, TRUE)

\* state == "absent": if snapshot: project.delete_snapshot(...)
snapshot_absent_delete ==
  /\ Running("snapshot", "main") /\ state = "absent"
  /\ ~NotFound(snapshot)
  /\ SnapStep(server, snapshots \ {snapshot}, TRUE, "exit", outcome,
              <<Call("DeleteSnapshot", SnapshotRef)>>, TRUE)

\* Mutant of snapshot_absent_missing: a delete that finds nothing reports a
\* change.
snapshot_absent_missing_changed ==
  /\ Running("snapshot", "main") /\ state = "absent"
  /\ NotFound(snapshot)
  /\ SnapStep(server, snapshots, TRUE, "exit", outcome, <<>>, FALSE)
\* state == "absent", no such snapshot: nothing to do
snapshot_absent_missing ==
  /\ Running("snapshot", "main") /\ state = "absent"
  /\ NotFound(snapshot)
  /\ SnapStep(server, snapshots, changed, "exit", outcome, <<>>, FALSE)

\* Mutant of snapshot_restore_missing: the restore is attempted all the same.
snapshot_restore_missing_tried ==
  /\ Running("snapshot", "main") /\ state = "restore"
  /\ NotFound(snapshot)
  /\ SnapStep(server, snapshots, changed, pc, "fail_json",
              <<Call("RestoreSnapshot", SnapshotRef)>>, FALSE)
\* state == "restore": if not snapshot: module.fail_json("Snapshot not found")
snapshot_restore_missing ==
  /\ Running("snapshot", "main") /\ state = "restore"
  /\ NotFound(snapshot)
  /\ SnapStep(server, snapshots, changed, pc, "fail_json", <<>>, FALSE)

\* What the server holds once a snapshot is restored.
Restored(srv, s) == [srv EXCEPT !.nodes = s.nodes, !.links = {}]
\* Mutant of snapshot_restore: a restore that finds the project as the
\* snapshot holds it does nothing.
snapshot_restore_if_differs ==
  /\ Running("snapshot", "main") /\ state = "restore"
  /\ ~NotFound(snapshot)
  /\ IF server.nodes = snapshot.nodes
       THEN SnapStep(server, snapshots, changed, "exit", outcome, <<>>, FALSE)
       ELSE SnapStep(Restored(server, snapshot), snapshots, TRUE, "exit", outcome,
                     <<Call("RestoreSnapshot", SnapshotRef)>>, TRUE)
\* project.restore_snapshot(...); result["changed"] = True
snapshot_restore ==
  /\ Running("snapshot", "main") /\ state = "restore"
  /\ ~NotFound(snapshot)
  /\ SnapStep(Restored(server, snapshot), snapshots, TRUE, "exit", outcome,
              <<Call("RestoreSnapshot", SnapshotRef)>>, TRUE)

\* module.exit_json(**result)
snapshot_exit ==
  /\ Running("snapshot", "exit")
  /\ SnapStep(server, snapshots, changed, pc, "exit_json", <<>>, FALSE)

\* What the snapshots of a project may hold: no node, or node 1 stopped.
SnapshotContents == {<<>>, <<Node(1, "stopped")>>}
SnapshotSets ==
  UNION {{{Snapshot(k, f[k]) : k \in S} : f \in [S -> SnapshotContents]}
         : S \in SUBSET Snapshots}

\* required_one_of snapshot_name / snapshot_id; given together they
\* designate the same snapshot.
SnapInit ==
  /\ module = "snapshot"
  /\ state \in {"present", "absent", "restore"}
  /\ snapshot_name \in Snapshots \cup {NotGiven}
  /\ snapshot_id \in Snapshots \cup {NotGiven}
  /\ snapshot_name /= NotGiven \/ snapshot_id /= NotGiven
  /\ (snapshot_name /= NotGiven /\ snapshot_id /= NotGiven) => snapshot_name = snapshot_id
  /\ retry = FALSE /\ force_project_open = FALSE /\ node_name = 0
  /\ project_name = TheProject /\ project_id = NotGiven /\ node_id = NotGiven
  /\ check_mode = FALSE
  /\ data = None /\ remote_file = None
  /\ nodes_state = None /\ nodes_strategy = "all"
  /\ nodes_spec = <<>> /\ links_spec = <<>>
  /\ server \in Existing({"stopped"}, FALSE) \cup {NoProject} \cup Unreachable
  /\ snapshots \in (IF server.exists THEN SnapshotSets ELSE {{}})
  /\ InitRun

SnapNext ==
  \/ snapshot_project_get \/ snapshot_lookup
  \/ snapshot_present_found \/ snapshot_present_need_name
  \/ snapshot_present_create
  \/ snapshot_absent_delete \/ snapshot_absent_missing
  \/ snapshot_restore_missing \/ snapshot_restore
  \/ snapshot_exit
  \/ rerun

SnapSpec == SnapInit /\ [][SnapNext]_vars

\* ------------------------------------- the modules from their arguments
\* A task of gns3_project or gns3_node with any combination of names and
\* ids, from the validation of its arguments to the lookups of the project
\* and of the node.
References == {NotGiven, TheProject, TheProject + 1}
ArgsInit ==
  /\ module \in {"project", "node"}
  /\ project_name \in References /\ project_id \in References
  /\ IF module = "node"
       THEN /\ state = "started"
            /\ node_name \in Names \cup {NotGiven}
            /\ node_id \in Names \cup {NotGiven}
            /\ force_project_open \in BOOLEAN
            /\ check_mode = FALSE
       ELSE /\ state \in {"opened", "closed", "present", "absent"}
            /\ node_name = NotGiven /\ node_id = NotGiven
            /\ force_project_open = FALSE
            /\ check_mode \in BOOLEAN
  /\ retry = FALSE
  /\ data = None /\ remote_file = None
  /\ snapshot_name = NotGiven /\ snapshot_id = NotGiven /\ snapshots = {}
  /\ nodes_state = None /\ nodes_strategy = "all"
  /\ nodes_spec = <<>> /\ links_spec = <<>>
  /\ server \in Existing({"stopped"}, FALSE) \cup {NoProject} \cup Unreachable
  /\ project = EmptyProject /\ node = NoNode /\ pr_exists = FALSE
  /\ changed = FALSE /\ pc = "args" /\ idx = 0 /\ already = {}
  /\ outcome = "running" /\ calls = <<>> /\ mutated = FALSE /\ made = <<>>
  /\ observed = Unobserved /\ history = <<>> /\ snapshot = NoSnapshot
  /\ file_data = None
  /\ runs = <<>>

ArgsNext ==
  \/ validate_args
  \/ check_mode_exit
  \/ project_get
  \/ node_project_get \/ node_project_open \/ node_retrieve

ArgsSpec == ArgsInit /\ [][ArgsNext]_vars

\* --------------------------------- gns3_project: two runs at the same time
\* Two tasks of gns3_project with state present and the same parameters run
\* against the same existing project. Each has its own locals; they share
\* the server, and the module takes no lock.
Runs == {1, 2}
StartOfRun == [pc |-> "get", pr_exists |-> FALSE, project |-> EmptyProject,
               already |-> {}, idx |-> 0, changed |-> FALSE,
               outcome |-> "running", calls |-> <<>>]
At(r, label) == runs[r].outcome = "running" /\ runs[r].pc = label
RunStep(r, srv, new) ==
  /\ server' = srv
  /\ runs' = [runs EXCEPT ![r] = new]
  /\ UNCHANGED <<params, locals, history, snap, files>>

\* try: project.get(); pr_exists = True
race_project_get(r) ==
  /\ At(r, "get") /\ ProjectFound(server)
  /\ RunStep(r, server,
             [runs[r] EXCEPT !.pc = "main", !.pr_exists = TRUE,
                             !.project = Fetched(server),
                             !.calls = Append(@, Call("GetProject", <<>>))])

\* state == "present", project found: _nodes_already_created
race_present_begin(r) ==
  /\ At(r, "main") /\ state = "present" /\ runs[r].pr_exists
  /\ RunStep(r, server,
             [runs[r] EXCEPT !.pc = "ensure_nodes", !.idx = 1,
                             !.already = NamesOf(runs[r].project.nodes)])

\* Mutant of race_ensure_node: the name is looked for among the nodes the
\* server holds when the call is about to be issued.
race_ensure_node_fresh(r) ==
  /\ At(r, "ensure_nodes") /\ runs[r].idx <= Len(nodes_spec)
  /\ LET node_spec == nodes_spec[runs[r].idx]
         srv == Opened(server)
         issued == <<Call("OpenProject", <<>>), Call("CreateNode", <<node_spec.name>>)>>
         n == NewNode(srv.nodes, node_spec)
     IN  IF ~NodeMissing(node_spec, NamesOf(server.nodes))
           THEN RunStep(r, server, [runs[r] EXCEPT !.idx = @ + 1])
         ELSE IF CreateNodeFails(srv, node_spec)
           THEN RunStep(r, srv, [runs[r] EXCEPT !.outcome = "fail_json",
                                                !.changed = FALSE,
                                                !.calls = @ \o issued])
         ELSE RunStep(r, [srv EXCEPT !.nodes = Append(@, n)],
                      [runs[r] EXCEPT !.idx = @ + 1, !.changed = TRUE,
                                      !.calls = @ \o issued,
                                      !.project = [Opened(@) EXCEPT !.nodes = Append(@, n)]])
\* if node_spec["name"] not in _nodes_already_created: project.open();
\* create_node(node_spec, project, module); result["changed"] = True
race_ensure_node(r) ==
  /\ At(r, "ensure_nodes") /\ runs[r].idx <= Len(nodes_spec)
  /\ LET node_spec == nodes_spec[runs[r].idx]
         srv == Opened(server)
         issued == <<Call("OpenProject", <<>>), Call("CreateNode", <<node_spec.name>>)>>
         n == NewNode(srv.nodes, node_spec)
     IN  IF ~NodeMissing(node_spec, runs[r].already)
           THEN RunStep(r, server, [runs[r] EXCEPT !.idx = @ + 1])
         ELSE IF CreateNodeFails(srv, node_spec)
           THEN RunStep(r, srv, [runs[r] EXCEPT !.outcome = "fail_json",
                                                !.changed = FALSE,
                                                !.calls = @ \o issued])
         ELSE RunStep(r, [srv EXCEPT !.nodes = Append(@, n)],
                      [runs[r] EXCEPT !.idx = @ + 1, !.changed = TRUE,
                                      !.calls = @ \o issued,
                                      !.project = [Opened(@) EXCEPT !.nodes = Append(@, n)]])

\* the loop is over and links_spec is None: return the project data
race_return(r) ==
  /\ At(r, "ensure_nodes") /\ runs[r].idx > Len(nodes_spec)
  /\ RunStep(r, server, [runs[r] EXCEPT !.outcome = "exit_json"])

\* An existing project on a reachable server, at most one node spec, no
\* link spec.
RaceInit ==
  /\ module = "project" /\ state = "present"
  /\ retry = FALSE /\ force_project_open = FALSE /\ node_name = NotGiven
  /\ project_name = TheProject /\ project_id = NotGiven /\ node_id = NotGiven
  /\ check_mode = FALSE
  /\ data = None /\ remote_file = None
  /\ snapshot_name = NotGiven /\ snapshot_id = NotGiven /\ snapshots = {}
  /\ nodes_state = None /\ nodes_strategy = "all"
  /\ nodes_spec \in {<<>>} \cup {<<n>> : n \in NodeSpecs}
  /\ links_spec = <<>>
  /\ server \in Existing({"stopped"}, FALSE)
  /\ project = EmptyProject /\ node = NoNode /\ pr_exists = FALSE
  /\ changed = FALSE /\ pc = "get" /\ idx = 0 /\ already = {}
  /\ outcome = "running" /\ calls = <<>> /\ mutated = FALSE /\ made = <<>>
  /\ observed = Unobserved /\ history = <<>> /\ snapshot = NoSnapshot
  /\ file_data = None
  /\ runs = [r \in Runs |-> StartOfRun]

RaceNext ==
  \E r \in Runs :
    \/ race_project_get(r)
    \/ race_present_begin(r)
    \/ race_ensure_node(r)
    \/ race_return(r)

RaceSpec == RaceInit /\ [][RaceNext]_vars

\* ------------------------------------ gns3_node_file and gns3_project_file
\* The text a file can hold; the empty string is what state absent writes.
Contents == {"", "a", "b"}
FileModules == {"node_file", "project_file"}
InFile(label) == module \in FileModules /\ outcome = "running" /\ pc = label
NeedsData == state = "present" /\ data = None

\* if state == "present" and data is None: module.fail_json(...)
file_need_data ==
  /\ InFile("get") /\ NeedsData
  /\ outcome' = "fail_json"
  /\ UNCHANGED <<server, runs, files, params, history, project, node, pr_exists,
                 changed, pc, idx, already, calls, mutated, made, observed, snap>>

\* project.get(), outside any try: an exception of the library ends the run
\* with a traceback.
file_project_get ==
  /\ InFile("get") /\ ~NeedsData
  /\ calls' = Append(calls, Call("GetProject", <<>>))
  /\ IF ProjectFound(server)
       THEN /\ project' = Fetched(server)
            /\ observed' = Fetched(server)
            /\ pc' = IF module = "node_file" THEN "node" ELSE "get_file"
            /\ outcome' = outcome
       ELSE /\ project' = project
            /\ observed' = observed
            /\ pc' = pc
            /\ outcome' = "exception"
  /\ UNCHANGED <<server, runs, files, params, history, node, pr_exists, changed, idx,
                 already, mutated, made, snap>>

\* node = project.get_node(name=node_name); if node is None: module.fail_json
file_get_node ==
  /\ InFile("node")
  /\ calls' = Append(calls, Call("GetNode", <<NodeKey(node_name, node_id)>>))
  /\ IF NodeKey(node_name, node_id) \in NamesOf(project.nodes)
       THEN /\ node' = Node(NodeKey(node_name, node_id),
                            StatusOf(project.nodes, NodeKey(node_name, node_id)))
            /\ pc' = "get_file"
            /\ outcome' = outcome
       ELSE /\ node' = node
            /\ pc' = pc
            /\ outcome' = "fail_json"
  /\ UNCHANGED <<server, runs, files, params, history, project, pr_exists, changed,
                 idx, already, mutated, made, observed, snap>>

\* file_data = get_file(path=dest); a "not found" error leaves file_data None
get_file ==
  /\ InFile("get_file")
  /\ calls' = Append(calls, Call("GetFile", <<>>))
  /\ file_data' = remote_file
  /\ pc' = "main"
  /\ UNCHANGED <<server, runs, remote_file, params, history, project, node,
                 pr_exists, changed, idx, already, outcome, mutated, made,
                 observed, snap>>

\* any other error of get_file: module.fail_json
get_file_fails ==
  /\ InFile("get_file")
  /\ calls' = Append(calls, Call("GetFile", <<>>))
  /\ outcome' = "fail_json"
  /\ UNCHANGED <<server, runs, files, params, history, project, node, pr_exists,
                 changed, pc, idx, already, mutated, made, observed, snap>>

\* node_write_file / project_write_file, then result.update(changed=True);
\* a write the server refuses ends in module.fail_json.
write_file(text) ==
  /\ calls' = Append(calls, Call("WriteFile", <<text>>))
  /\ \E ok \in BOOLEAN :
       IF ok THEN /\ remote_file' = text
                  /\ changed' = TRUE
                  /\ mutated' = TRUE
                  /\ pc' = "exit"
                  /\ outcome' = outcome
             ELSE /\ outcome' = "fail_json"
                  /\ UNCHANGED <<remote_file, changed, mutated, pc>>
  /\ UNCHANGED <<server, runs, file_data, params, history, project, node,
                 pr_exists, idx, already, made, observed, snap>>
\* result.update(changed=False)
file_unchanged ==
  /\ changed' = FALSE
  /\ pc' = "exit"
  /\ UNCHANGED <<server, runs, files, params, history, project, node, pr_exists,
                 idx, already, outcome, calls, mutated, made, observed, snap>>

\* state == "absent": if file_data is None or file_data == ""
file_absent_unchanged ==
  /\ InFile("main") /\ state = "absent"
  /\ file_data \in {None, ""}
  /\ file_unchanged
\* state == "absent", else: the file is emptied (the server allows no DELETE)
file_absent_write ==
  /\ InFile("main") /\ state = "absent"
  /\ file_data \notin {None, ""}
  /\ write_file("")

\* Mutant of file_present_unchanged: the file is written whatever it holds.
file_present_rewrites ==
  /\ InFile("main") /\ state = "present"
  /\ file_data = data
  /\ write_file(data)
\* state == "present": if file_data == data
file_present_unchanged ==
  /\ InFile("main") /\ state = "present"
  /\ file_data = data
  /\ file_unchanged
\* state == "present", else: the data is written
file_present_write ==
  /\ InFile("main") /\ state = "present"
  /\ file_data /= data
  /\ write_file(data)

\* module.exit_json(**result)
file_exit ==
  /\ InFile("exit")
  /\ outcome' = "exit_json"
  /\ UNCHANGED <<server, runs, files, params, history, project, node, pr_exists,
                 changed, pc, idx, already, calls, mutated, made, observed, snap>>

\* A file is held by a project that exists and, in gns3_node_file, by a
\* node of it.
FileInit ==
  /\ module \in FileModules
  /\ state \in {"present", "absent"}
  /\ data \in Contents \cup {None}
  /\ remote_file \in Contents \cup {None}
  /\ node_name \in (IF module = "node_file" THEN Names ELSE {NotGiven})
  /\ retry = FALSE /\ force_project_open = FALSE
  /\ project_name = TheProject /\ project_id = NotGiven /\ node_id = NotGiven
  /\ check_mode = FALSE
  /\ snapshot_name = NotGiven /\ snapshot_id = NotGiven /\ snapshots = {}
  /\ nodes_state = None /\ nodes_strategy = "all"
  /\ nodes_spec = <<>> /\ links_spec = <<>>
  /\ server \in Existing({"stopped"}, FALSE) \cup {NoProject} \cup Unreachable
  /\ remote_file /= None
       => /\ server.exists
          /\ module = "node_file" => node_name \in NamesOf(server.nodes)
  /\ InitRun

FileNext ==
  \/ file_need_data \/ file_project_get \/ file_get_node
  \/ get_file \/ get_file_fails
  \/ file_absent_unchanged \/ file_absent_write
  \/ file_present_unchanged \/ file_present_write
  \/ file_exit
  \/ rerun

FileSpec == FileInit /\ [][FileNext]_vars

\* ------------------------------------------ runs that are not held up
\* A run of gns3_project, gns3_node or gns3_snapshot in which every call of
\* the library and every time.sleep returns: main() is sequential code, so
\* the statement the run is at is eventually executed.
RunInit == Init \/ NodeInit \/ SnapInit
RunNext == Next \/ NodeNext \/ SnapNext
FairSpec == RunInit /\ [][RunNext]_vars /\ WF_vars(RunNext)

\* The calls main() issues outside its loops over nodes and specs, on its
\* longest path: get, open, get_node, reload, get, start in gns3_node; get,
\* get_snapshot, create_snapshot, get_snapshot in gns3_snapshot; get, open,
\* stop_nodes, delete in gns3_project.
FixedCalls == IF module = "node" THEN 6 ELSE 4

\* ================================================================ claims
Done == outcome /= "running"
Fetching == pc = "get" /\ outcome = "running"
IsPrefix(s, t) == Len(s) <= Len(t) /\ s = SubSeq(t, 1, Len(s))
Get == Call("GetProject", <<>>)
Open == Call("OpenProject", <<>>)
CreateNodeCalls == [i \in DOMAIN nodes_spec |-> Call("CreateNode", <<nodes_spec[i].name>>)]
CreateLinkCalls == [i \in DOMAIN links_spec |-> Call("CreateLink", links_spec[i])]
Mutating == {"OpenProject", "CloseProject", "CreateProject", "DeleteProject",
             "StartNodes", "StopNodes", "StartNode", "StopNode", "SuspendNode",
             "ReloadNode", "CreateNode", "CreateLink"}
\* The run before this one left a node in the state opposite to nodes_state.
LeftOpposite ==
  /\ state = "opened"
  /\ nodes_state /= None
  /\ Opposite(nodes_state) \in StatusesOf(history[Len(history)].nodes)

C2_ChangedIsOrOfChanges ==
  (module = "project" /\ outcome = "exit_json" /\ mutated) => changed

\* C3: when the node's observed status already equals the desired state,
\* gns3_node issues no start, stop, suspend or reload and changed is false.
C3_NoopWhenInState ==
  (module = "node" /\ node_name \in NamesOf(observed.nodes)
     /\ StatusOf(observed.nodes, node_name) = state)
  => (CallsOf(calls, NodeActions) = <<>> /\ ~changed)

\* C3 witness: a node run ends successfully on a node found in the desired state.
C3_Witness ==
  /\ module = "node" /\ outcome = "exit_json"
  /\ node_name \in NamesOf(observed.nodes)
  /\ StatusOf(observed.nodes, node_name) = state

\* C4: state present on a project that does not exist issues CreateProject,
\* then one CreateNode per node spec in declared order, then one CreateLink
\* per link spec in declared order, and a run that ends successfully has
\* issued them all and reports changed=true; the run fails only on a call
\* the server or the library rejects.
FreshCalls == <<Get, Call("CreateProject", <<>>)>> \o CreateNodeCalls \o CreateLinkCalls
LastCallRejected ==
  LET c == calls[Len(calls)] IN
    \/ c.op = "CreateNode" /\ c.arg = <<BadName>>
    \/ c.op = "CreateLink" /\ LinkOutcome(c.arg, project) = "not_found"
C4_FreshCreationOrder ==
  (module = "project" /\ state = "present" /\ ~Fetching /\ ~pr_exists)
  => /\ IsPrefix(calls, FreshCalls)
     /\ outcome = "exit_json" => (calls = FreshCalls /\ changed)
     /\ outcome = "fail_json" => LastCallRejected
     /\ outcome = "exception" => ~server.up

\* C4 witness: scenario 3, two nodes and the link between them created on a
\* project that did not exist.
C4_Witness ==
  /\ module = "project" /\ state = "present" /\ ~pr_exists
  /\ outcome = "exit_json" /\ history = <<>>
  /\ Len(nodes_spec) = 2 /\ Len(links_spec) = 1
  /\ Len(made) = 3

\* C5: a CreateLink rejected because a port is in use does not fail the run:
\* the run fails in the links loop only on another error, a successful run
\* has attempted every link spec in declared order, and on an existing
\* project changed is true exactly when a node or a link was created.
C5_PortInUseTolerated ==
  (module = "project" /\ state = "present" /\ ~Fetching)
  => /\ IsPrefix(CallsOf(calls, {"CreateLink"}), CreateLinkCalls)
     /\ (outcome = "fail_json" /\ pc \in {"ensure_links", "create_links"})
          => LinkOutcome(links_spec[idx], project) = "not_found"
     /\ outcome = "exit_json" => CallsOf(calls, {"CreateLink"}) = CreateLinkCalls
     /\ (outcome = "exit_json" /\ pr_exists) => (changed <=> made /= <<>>)

\* C5 witness: the first link spec was rejected for a port in use, the
\* second one was created afterwards, and the run ended successfully.
C5_Witness ==
  /\ module = "project" /\ state = "present" /\ pr_exists
  /\ outcome = "exit_json" /\ changed
  /\ Len(links_spec) = 2
  /\ links_spec[1] \in observed.links
  /\ made = <<Call("CreateLink", links_spec[2])>>

\* C6: state absent on an existing project issues OpenProject only when the
\* observed status is not opened, then one bulk stop with poll wait 0, then
\* DeleteProject, which is issued on an opened project only; the run
\* reports changed=true.
AbsentCalls ==
  <<Get>> \o (IF observed.status /= "opened" THEN <<Open>> ELSE <<>>)
          \o <<Call("StopNodes", <<0>>), Call("DeleteProject", <<>>)>>
C6_AbsentOrder ==
  (module = "project" /\ state = "absent" /\ pr_exists)
  => /\ IsPrefix(calls, AbsentCalls)
     /\ (pc = "delete" /\ ~Done) => server.status = "opened"
     /\ Done => (outcome = "exit_json" /\ calls = AbsentCalls /\ changed)

\* C6 witness: a closed project was opened, stopped and deleted.
C6_Witness ==
  /\ module = "project" /\ state = "absent" /\ pr_exists
  /\ observed.status = "closed" /\ Len(observed.nodes) > 0
  /\ outcome = "exit_json" /\ ~server.exists

\* C7: state absent on a project that does not exist issues no mutating
\* call, reports changed=false and ends successfully.
C7_AbsentOnMissing ==
  (module = "project" /\ state = "absent" /\ ~Fetching
     /\ server.up /\ ~pr_exists)
  => /\ calls = <<Get>>
     /\ ~changed /\ ~mutated
     /\ Done => outcome = "exit_json"

\* C7 witness: the first run finds no project and ends successfully.
C7_Witness ==
  /\ module = "project" /\ state = "absent" /\ history = <<>>
  /\ server.up /\ ~pr_exists /\ outcome = "exit_json"

\* C8: state opened on a project that does not exist ends in a reported
\* failure with changed=false, and issues no CreateProject, no OpenProject
\* and no node action.
C8_OpenedOnMissing ==
  (module = "project" /\ state = "opened" /\ ~Fetching /\ ~pr_exists)
  => /\ calls = <<Get>>
     /\ ~changed /\ ~mutated
     /\ Done => outcome = "fail_json"

\* C8 witness: the run has failed on a reachable server without the project.
C8_Witness ==
  /\ module = "project" /\ state = "opened" /\ server.up /\ ~server.exists
  /\ outcome = "fail_json"

\* C9: when the initial fetch fails with a transport error the run ends in a
\* reported failure and issues no mutating call, for every desired state.
C9_TransportErrorFatal ==
  (module = "project" /\ ~server.up /\ ~Fetching)
  => /\ CallsOf(calls, Mutating) = <<>>
     /\ outcome /= "exit_json"

\* C10: a closed project, state opened, nodes_state started, strategy all
\* and a stopped node: OpenProject once, then one bulk start, no per-node
\* start, and changed=true (the run ends otherwise only when the server
\* refuses the bulk start, in an uncaught exception).
C10_OpenThenBulkStart ==
  (module = "project" /\ state = "opened" /\ pr_exists
     /\ observed.status = "closed"
     /\ nodes_state = "started" /\ nodes_strategy = "all"
     /\ "stopped" \in StatusesOf(observed.nodes))
  => /\ IsPrefix(calls, <<Get, Open, Call("StartNodes", <<poll_wait_time>>)>>)
     /\ Done => /\ outcome \in {"exit_json", "exception"}
                /\ calls = <<Get, Open, Call("StartNodes", <<poll_wait_time>>)>>
                /\ outcome = "exit_json" => changed

\* C10 witness: scenario 1 has run to its end.
C10_Witness ==
  /\ module = "project" /\ state = "opened" /\ pr_exists
  /\ observed.status = "closed"
  /\ nodes_state = "started" /\ nodes_strategy = "all"
  /\ "stopped" \in StatusesOf(observed.nodes)
  /\ outcome = "exit_json" /\ history = <<>>

\* C11: an opened project whose nodes are all started, state opened and
\* nodes_state started: under either strategy the run issues no
\* OpenProject, no bulk action and no per-node action, and changed is false.
C11_NothingToDo ==
  (module = "project" /\ state = "opened" /\ pr_exists
     /\ observed.status = "opened" /\ nodes_state = "started"
     /\ StatusesOf(observed.nodes) \subseteq {"started"})
  => /\ calls = <<Get>>
     /\ ~changed /\ ~mutated
     /\ Done => outcome = "exit_json"

\* C11 witness: scenario 2 has run to its end over two started nodes, one
\* node at a time.
C11_Witness ==
  /\ module = "project" /\ state = "opened" /\ pr_exists
  /\ observed.status = "opened" /\ nodes_state = "started"
  /\ nodes_strategy = "one_by_one"
  /\ Len(observed.nodes) = 2
  /\ StatusesOf(observed.nodes) = {"started"}
  /\ outcome = "exit_json"

\* The calls of the one_by_one loop over the nodes as observed: the action
\* and one wait of nodes_delay for each node not in the target state.
RECURSIVE OneByOneCalls(_, _)
OneByOneCalls(nodes, target) ==
  IF nodes = <<>> THEN <<>>
  ELSE (IF Head(nodes).status /= target
          THEN <<Call(IF target = "started" THEN "StartNode" ELSE "StopNode",
                      <<Head(nodes).name>>),
                 Call("Sleep", <<nodes_delay>>)>>
          ELSE <<>>)
       \o OneByOneCalls(Tail(nodes), target)

\* C12: under strategy one_by_one, when convergence is triggered, the run
\* issues one StopNode (resp. StartNode) for each node observed out of the
\* target state and none for the others, in the observed order, each
\* followed by one wait of nodes_delay, and never the bulk call (the run
\* stops short only when the server refuses an action, in an uncaught
\* exception).
C12_OneByOneOrder ==
  (module = "project" /\ state = "opened" /\ pr_exists
     /\ nodes_strategy = "one_by_one"
     /\ nodes_state /= None
     /\ Opposite(nodes_state) \in StatusesOf(observed.nodes))
  => LET expected == <<Get>>
                     \o (IF observed.status /= "opened" THEN <<Open>> ELSE <<>>)
                     \o OneByOneCalls(observed.nodes, nodes_state)
     IN  /\ IsPrefix(calls, expected)
         /\ Done => outcome \in {"exit_json", "exception"}
         /\ outcome = "exit_json" => (calls = expected /\ changed)

\* C12 witness: a stop over two nodes, the first suspended and the second
\* started, has issued two StopNode calls.
C12_Witness ==
  /\ module = "project" /\ state = "opened" /\ pr_exists
  /\ nodes_strategy = "one_by_one" /\ nodes_state = "stopped"
  /\ Len(observed.nodes) = 2
  /\ observed.nodes[1].status = "suspended"
  /\ observed.nodes[2].status = "started"
  /\ outcome = "exit_json"
  /\ Len(CallsOf(calls, {"StopNode"})) = 2

\* The calls of the action of the desired state issued so far in this run.
StateActions == CallsOf(calls, {ActionOp(state)})
\* The node module converges a node found in a status other than the
\* desired one of started, stopped, suspended.
Converging ==
  /\ module = "node" /\ state \in {"started", "stopped", "suspended"}
  /\ pc \in {"verify", "retry", "return"}
  /\ StatusOf(observed.nodes, node_name) /= state
\* The step taken after the first action returned.
AfterFirstAction == pc = "retry" /\ outcome = "running"

\* C13: a desired state of started, stopped or suspended that differs from
\* the observed status makes the node module issue the action once, and
\* once more if and only if the status after the first action still differs
\* and retry is set; never more than twice; a run whose actions the server
\* accepted ends successfully with changed=true even if the status still
\* does not match.
C13_SingleBoundedRetry ==
  /\ [](Converging =>
          /\ Len(StateActions) <= 2
          /\ \A i \in DOMAIN StateActions : StateActions[i].arg = <<node_name>>
          /\ pc = "verify" => Len(StateActions) = (IF Done THEN 1 ELSE 0)
          /\ pc = "retry" => Len(StateActions) = 1
          /\ pc = "return" => Len(StateActions) >= 1
          /\ (Done /\ outcome /= "exception") => (outcome = "exit_json" /\ changed))
  /\ [][(Converging /\ AfterFirstAction)
          => /\ Len(StateActions') = 2 <=> (node.status /= state /\ retry)
             /\ Len(StateActions') = 1 <=> ~(node.status /= state /\ retry)
             /\ outcome' /= "exception" => (pc' = "return" /\ changed')]_vars

\* C13 witness: a run with retry set has issued the action twice, the node
\* has still not reached the desired state, and the run has ended
\* successfully with changed=true.
C13_Witness ==
  /\ Converging /\ retry
  /\ Len(StateActions) = 2
  /\ node.status /= state
  /\ outcome = "exit_json" /\ changed

\* The node module has retrieved the node and been asked to reload it.
Reloading ==
  /\ module = "node" /\ state = "reload"
  /\ pc \in {"verify", "reload_get", "reload_retry", "return"}
Reported == outcome \in {"exit_json", "fail_json"}

\* C14: desired state reload issues the reload action whatever the node's
\* status and whatever retry, and every result it reports has changed=true;
\* this holds of a second consecutive run as of the first.
C14_ReloadAlwaysChanged ==
  Reloading =>
    /\ Len(CallsOf(calls, {"ReloadNode"})) = (IF pc = "verify" /\ ~Done THEN 0 ELSE 1)
    /\ (Done /\ Reported) => (outcome = "exit_json" /\ changed)
    /\ \A i \in DOMAIN history :
         history[i].outcome = "exit_json" => history[i].changed

\* C14 witness: a second reload of a node that was started before the first
\* one, retry unset, has ended with changed=true after a first run that
\* reported changed=true too.
C14_Witness ==
  /\ Reloading /\ ~retry
  /\ history /= <<>> /\ history[1].outcome = "exit_json" /\ history[1].changed
  /\ StatusesOf(history[1].nodes) = {"started"}
  /\ StatusOf(observed.nodes, node_name) = "started"
  /\ Len(CallsOf(calls, {"ReloadNode"})) = 1
  /\ outcome = "exit_json" /\ changed

\* The calls of a node run up to and including the retrieval of the node.
RetrieveCalls ==
  <<Get>>
  \o (IF observed.status /= "opened" /\ force_project_open THEN <<Open>> ELSE <<>>)
  \o <<Call("GetNode", <<node_name>>)>>
ReloadCalls ==
  <<Call("ReloadNode", <<node_name>>), Call("Sleep", <<poll_wait_time>>),
    Call("GetNode", <<node_name>>)>>
StartCall == Call("StartNode", <<node_name>>)
\* The step taken after the node was fetched again.
AfterRefetch == pc = "reload_retry" /\ outcome = "running"

\* C15: desired state reload issues ReloadNode, waits poll_wait_time,
\* fetches the node again, and then issues one StartNode if and only if the
\* fetched status is not started and retry is set; no StartNode comes
\* before the fetch, and none when retry is unset.
C15_ReloadOrder ==
  /\ [](Reloading =>
          /\ IsPrefix(calls, RetrieveCalls \o ReloadCalls \o <<StartCall>>)
          /\ pc = "reload_get" => calls = RetrieveCalls \o <<ReloadCalls[1]>>
          /\ pc = "reload_retry" => calls = RetrieveCalls \o ReloadCalls
          /\ pc = "return" => IsPrefix(RetrieveCalls \o ReloadCalls, calls)
          /\ ~retry => CallsOf(calls, {"StartNode"}) = <<>>)
  /\ [][(Reloading /\ AfterRefetch)
          => (calls' = RetrieveCalls \o ReloadCalls \o <<StartCall>>
                <=> (node.status /= "started" /\ retry))]_vars

\* C15 witness: the node was still stopped when fetched again, retry is
\* set, and the run has ended after the one StartNode.
C15_Witness ==
  /\ Reloading /\ retry
  /\ calls = RetrieveCalls \o ReloadCalls \o <<StartCall>>
  /\ outcome = "exit_json"

\* The snapshot module has looked the snapshot up.
Looked == module = "snapshot" /\ pc \in {"main", "exit"}
SnapshotMutations == {"CreateSnapshot", "DeleteSnapshot", "RestoreSnapshot"}
Untouched == CallsOf(calls, SnapshotMutations) = <<>> /\ ~changed /\ ~mutated

\* C16: state restore, snapshot not found: the run ends in a reported
\* failure with changed=false and RestoreSnapshot is never issued.
C16_RestoreMissingFails ==
  (Looked /\ state = "restore" /\ NotFound(snapshot))
  => /\ Untouched
     /\ pc = "main"
     /\ Done => outcome = "fail_json"

\* C16 witness: a restore of a snapshot the project does not hold has ended
\* in fail_json, the project holding another snapshot.
C16_Witness ==
  /\ Looked /\ state = "restore" /\ NotFound(snapshot)
  /\ snapshots /= {}
  /\ outcome = "fail_json"

\* C17: state present: a snapshot that is found causes no CreateSnapshot and
\* changed=false; one that is not found is created by exactly one
\* CreateSnapshot, with changed=true, when a name is given; when only an id
\* is given the run ends in a reported failure without CreateSnapshot.
C17_PresentCases ==
  (Looked /\ state = "present")
  => /\ ~NotFound(snapshot)
          => (Untouched /\ (Done => outcome = "exit_json"))
     /\ (NotFound(snapshot) /\ snapshot_name /= NotGiven)
          => /\ pc = "main" => (Untouched /\ ~Done)
             /\ pc = "exit"
                  => /\ CallsOf(calls, SnapshotMutations)
                          = <<Call("CreateSnapshot", <<snapshot_name>>)>>
                     /\ changed
                     /\ \E s \in snapshots : s.name = snapshot_name
                     /\ Done => outcome = "exit_json"
     /\ (NotFound(snapshot) /\ snapshot_name = NotGiven)
          => (Untouched /\ pc = "main" /\ (Done => outcome = "fail_json"))

\* C17 witness: a snapshot given by name and id was not found and the run
\* has ended after creating it.
C17_Witness ==
  /\ Looked /\ state = "present" /\ NotFound(snapshot)
  /\ snapshot_name /= NotGiven /\ snapshot_id /= NotGiven
  /\ outcome = "exit_json" /\ changed

\* C18: state absent: a snapshot that is found is deleted by exactly one
\* DeleteSnapshot with changed=true; one that is not found leaves the run
\* without mutation, successful, with changed=false; the second of two
\* consecutive runs reports changed=false.
C18_AbsentCases ==
  (module = "snapshot" /\ state = "absent")
  => /\ (Looked /\ ~NotFound(snapshot))
          => /\ pc = "main" => (Untouched /\ ~Done)
             /\ pc = "exit"
                  => /\ CallsOf(calls, SnapshotMutations)
                          = <<Call("DeleteSnapshot", SnapshotRef)>>
                     /\ changed
                     /\ snapshot \notin snapshots
                     /\ Done => outcome = "exit_json"
     /\ (Looked /\ NotFound(snapshot))
          => (Untouched /\ (Done => outcome = "exit_json"))
     /\ history /= <<>> => ~changed

\* C18 witness: the first run deleted the snapshot, the second has ended
\* successfully having found none.
C18_Witness ==
  /\ Looked /\ state = "absent"
  /\ history /= <<>> /\ history[1].changed /\ history[1].outcome = "exit_json"
  /\ NotFound(snapshot)
  /\ outcome = "exit_json"

\* C19: every successful run of state restore has issued RestoreSnapshot
\* and reports changed=true, the second of two consecutive runs as the
\* first.
C19_RestoreNotIdempotent ==
  (module = "snapshot" /\ state = "restore")
  => /\ outcome = "exit_json"
          => /\ CallsOf(calls, SnapshotMutations)
                  = <<Call("RestoreSnapshot", SnapshotRef)>>
             /\ changed /\ mutated
             /\ server.nodes = snapshot.nodes
     /\ \A i \in DOMAIN history :
          history[i].outcome = "exit_json" => history[i].changed

\* C19 witness: a second restore of the same snapshot has ended with
\* changed=true; the first run had reported changed=true and left the
\* project as the snapshot holds it.
C19_Witness ==
  /\ Looked /\ state = "restore"
  /\ history /= <<>> /\ history[1].changed /\ history[1].outcome = "exit_json"
  /\ observed.nodes = snapshot.nodes
  /\ outcome = "exit_json" /\ changed

\* C20: state present on an existing project: CreateNode is issued for a
\* spec only if no node of that name exists when the call is issued, so no
\* name receives more than one CreateNode in a run, duplicated names in
\* nodes_spec included, and a spec whose name exists causes no call.
C20_CreateNodeOncePerName ==
  (module = "project" /\ state = "present" /\ pr_exists)
  => LET created == CallsOf(calls, {"CreateNode"}) IN
       /\ \A i \in DOMAIN created : created[i].arg[1] \notin NamesOf(observed.nodes)
       /\ \A i, j \in DOMAIN created : created[i].arg = created[j].arg => i = j

\* C21: state present on an existing project: OpenProject is issued only
\* when the observed status is not opened, at most once in the run and
\* before the first CreateNode or CreateLink; never per node spec or per
\* link spec.
C21_OpenOnceWhenClosed ==
  (module = "project" /\ state = "present" /\ pr_exists)
  => LET opens == CallsOf(calls, {"OpenProject"})
         rest == CallsOf(calls, {"OpenProject", "CreateNode", "CreateLink"})
     IN  /\ Len(opens) <= 1
         /\ observed.status = "opened" => opens = <<>>
         /\ \A i \in DOMAIN rest : rest[i].op = "OpenProject" => i = 1

Close == Call("CloseProject", <<>>)

\* C22: state closed on an existing project issues CloseProject exactly
\* once, with changed=true, if and only if the observed status is not
\* closed; a project already closed gets no mutation and changed=false; a
\* project that does not exist makes the run end in a reported failure
\* with no mutation.
C22_CloseOnlyIfNotClosed ==
  (module = "project" /\ state = "closed" /\ Done)
  => /\ (pr_exists /\ observed.status /= "closed")
          => (calls = <<Get, Close>> /\ changed /\ outcome = "exit_json"
              /\ server.status = "closed")
     /\ (pr_exists /\ observed.status = "closed")
          => (calls = <<Get>> /\ ~changed /\ ~mutated /\ outcome = "exit_json")
     /\ ~pr_exists
          => (calls = <<Get>> /\ ~changed /\ ~mutated /\ outcome = "fail_json")

\* C22 witness: an opened project with a started node has been closed.
C22_Witness ==
  /\ module = "project" /\ state = "closed" /\ pr_exists
  /\ observed.status = "opened" /\ "started" \in StatusesOf(observed.nodes)
  /\ outcome = "exit_json" /\ changed

\* C23: state closed with nodes_state=stopped on an opened project that has
\* started nodes: the nodes are stopped as part of the run, by the bulk
\* stop or by per-node stops according to the strategy.
C23_ClosedStopsNodes ==
  (module = "project" /\ state = "closed" /\ nodes_state = "stopped"
     /\ pr_exists /\ observed.status = "opened"
     /\ "started" \in StatusesOf(observed.nodes)
     /\ outcome = "exit_json")
  => CallsOf(calls, {IF nodes_strategy = "all" THEN "StopNodes" ELSE "StopNode"}) /= <<>>

\* C24: node module, project fetched with a status other than opened: with
\* force_project_open the run issues OpenProject exactly once, before any
\* node action; without it the run ends in a reported error and issues no
\* start, stop, suspend or reload. An opened project is never opened again.
C24_ForceProjectOpen ==
  (module = "node" /\ observed /= Unobserved)
  => LET acts == CallsOf(calls, NodeActions \cup {"OpenProject"}) IN
       /\ (observed.status /= "opened" /\ force_project_open)
            => /\ Len(CallsOf(calls, {"OpenProject"})) <= 1
               /\ acts /= <<>> => acts[1] = Open
       /\ (observed.status /= "opened" /\ ~force_project_open)
            => /\ acts = <<>>
               /\ Done => outcome = "fail_json"
       /\ observed.status = "opened" => CallsOf(calls, {"OpenProject"}) = <<>>

\* The one_by_one loop was left by an exception at its node idx.
LoopFailed ==
  /\ module = "project" /\ pc = "one_by_one" /\ outcome = "exception"
NodeOps == {"StartNode", "StopNode"}
Last(s) == s[Len(s)]

\* C25: a node action that fails during node convergence is not caught:
\* under one_by_one, when the action on the k-th node fails no action is
\* issued on a later node, what the earlier actions did stays on the server
\* and the run does not end with a success result.
C25_FailureAbortsLoop ==
  /\ [](module = "project" /\ pc \in {"nodes", "one_by_one"}
          => /\ outcome \in {"running", "exception"}
             /\ (calls /= <<>> /\ Last(calls).op \in NodeOps \cup {"StartNodes", "StopNodes"})
                   <=> outcome = "exception"
             /\ LoopFailed
                  => /\ Last(calls) = Call(NodeOp(nodes_state), <<project.nodes[idx].name>>)
                     /\ \A j \in DOMAIN project.nodes :
                          j > idx => \A c \in DOMAIN calls :
                                       calls[c].arg /= <<project.nodes[j].name>>
                     /\ Len(CallsOf(calls, NodeOps))
                          = Cardinality({j \in 1 .. idx : observed.nodes[j].status /= nodes_state})
                     /\ ~changed)
  /\ [][(module = "project" /\ pc = "one_by_one" /\ outcome' = "exception")
          => (server' = server /\ UNCHANGED <<pc, idx>>)]_vars

\* C25 witness: the first node was stopped by the run, the action on the
\* second failed, and the first is still stopped on the server.
C25_Witness ==
  /\ LoopFailed /\ nodes_state = "stopped" /\ idx = 2
  /\ observed.nodes[1].status = "started"
  /\ server.nodes[1].status = "stopped"
  /\ Len(CallsOf(calls, {"StopNode"})) = 2

NoProjectRef == project_name = NotGiven /\ project_id = NotGiven
NoNodeRef == module = "node" /\ node_name = NotGiven /\ node_id = NotGiven
Validated == module \in {"project", "node"} /\ (pc /= "args" \/ Done)
NodeLookedUp == module = "node" /\ CallsOf(calls, {"GetNode"}) /= <<>>

\* C26: a task of the project or node module that gives neither a name nor
\* an id for the project (or for the node) fails before any remote call;
\* when both are given the lookup is made by the name and the id is not
\* used.
C26_ReferenceResolution ==
  Validated =>
    /\ (NoProjectRef \/ NoNodeRef)
         => (calls = <<>> /\ outcome = "fail_json" /\ pc = "args")
    /\ (project_name /= NotGiven /\ project_id /= NotGiven
          /\ calls /= <<>> /\ server.up /\ server.exists)
         => (observed /= Unobserved <=> project_name = TheProject)
    /\ (NodeLookedUp /\ node_name /= NotGiven /\ node_id /= NotGiven)
         => /\ CallsOf(calls, {"GetNode"}) = <<Call("GetNode", <<node_name>>)>>
            /\ node /= NoNode <=> node_name \in NamesOf(project.nodes)
            /\ node /= NoNode => node.name = node_name

\* C26 witness: the project was given by its name and by the id of no
\* project, the node by its name and by the id of another node; both were
\* found by name.
C26_Witness ==
  /\ Validated /\ module = "node"
  /\ project_name = TheProject /\ project_id \notin {NotGiven, TheProject}
  /\ node_name /= NotGiven /\ node_id \notin {NotGiven, node_name}
  /\ node_id \in NamesOf(project.nodes)
  /\ node /= NoNode /\ node.name = node_name

\* Both concurrent runs have fetched the project and found the one declared
\* name missing from it.
BothSawMissing ==
  /\ runs /= <<>> /\ Len(nodes_spec) = 1
  /\ \A r \in Runs : /\ runs[r].pc = "ensure_nodes"
                     /\ nodes_spec[1].name \notin runs[r].already
Created(r) == CallsOf(runs[r].calls, {"CreateNode"})

\* C27: the module takes no lock on the server: when two concurrent runs of
\* state present with the same node spec both observe the name as missing,
\* both issue CreateNode for it and each run that ends successfully
\* reports changed=true, so the server gets two nodes for the one spec.
C27_ConcurrentRunsRace ==
  BothSawMissing =>
    \A r \in Runs :
      runs[r].outcome /= "running"
        => /\ Created(r) = <<Call("CreateNode", <<nodes_spec[1].name>>)>>
           /\ runs[r].outcome = "exit_json" => runs[r].changed

\* C27 witness: both runs saw the name missing, both created the node and
\* ended with changed=true; the server holds two nodes more than before.
C27_Witness ==
  /\ BothSawMissing
  /\ \A r \in Runs : /\ runs[r].outcome = "exit_json" /\ runs[r].changed
                     /\ Len(Created(r)) = 1
                     /\ Len(server.nodes) = Cardinality(runs[r].already) + 2

\* The positions in the call log of the calls of ops.
Positions(ops) == {i \in DOMAIN calls : calls[i].op \in ops}
Max(S) == CHOOSE m \in S : \A n \in S : n <= m

\* C28: a successful run of the project module that returns project data
\* fetched the project again after its last remote mutation, and the status
\* it returns (project.status, read by return_project_data) is the status
\* the server holds for the project at the end of the run.
C28_ReturnedDataRefetched ==
  (module = "project" /\ pc = "return" /\ outcome = "exit_json")
  => /\ Positions(Mutating) /= {}
          => Max(Positions({"GetProject"})) > Max(Positions(Mutating))
     /\ server.exists /\ project.status = server.status

\* C29: every CreateLink is immediately preceded by a fetch of the project,
\* on the path of an existing project and on the path of a project just
\* created.
C29_FetchBeforeEachLink ==
  (module = "project" /\ state = "present")
  => \A i \in DOMAIN calls :
       calls[i].op = "CreateLink" => (i > 1 /\ calls[i - 1].op = "GetProject")

NodesCreated == CallsOf(calls, {"CreateNode"})
LinksCreated == CallsOf(calls, {"CreateLink"})
InNodeLoop == pc \in {"ensure_nodes", "create_nodes"}
InLinkLoop == pc \in {"ensure_links", "create_links"}
\* What the run created so far is on the server.
MadeRemains ==
  /\ Len(server.nodes) = Len(observed.nodes) + Len(CallsOf(made, {"CreateNode"}))
  /\ \A i \in DOMAIN made : made[i].op = "CreateLink" => made[i].arg \in server.links

\* C30: a CreateNode that fails, or a CreateLink that fails with another
\* error than the port in use, ends the run in a reported failure at that
\* point: no later CreateNode or CreateLink is issued, and what the run
\* created before stays on the server.
C30_CreationFailureAborts ==
  (module = "project" /\ state = "present")
  => /\ (InNodeLoop \/ InLinkLoop \/ pc = "return") => MadeRemains
     /\ InNodeLoop
          => /\ outcome \in {"running", "fail_json"}
             /\ LinksCreated = <<>>
             /\ Len(NodesCreated) = Len(CallsOf(made, {"CreateNode"}))
                                      + (IF outcome = "fail_json" THEN 1 ELSE 0)
             /\ outcome = "fail_json"
                  => (Last(calls) = Call("CreateNode", <<nodes_spec[idx].name>>) /\ ~changed)
     /\ InLinkLoop
          => /\ outcome \in {"running", "fail_json"}
             /\ Len(NodesCreated) = Len(CallsOf(made, {"CreateNode"}))
             /\ Len(LinksCreated) = (IF outcome = "fail_json" THEN idx ELSE idx - 1)
             /\ outcome = "fail_json"
                  => (Last(calls) = Call("CreateLink", links_spec[idx]) /\ ~changed)
     /\ (pc = "return" /\ pr_exists = FALSE)
          => Len(NodesCreated) = Len(nodes_spec) /\ Len(LinksCreated) = Len(links_spec)

\* C30 witness: on a project just created the first node was created, the
\* second was refused, and the first is still on the server.
C30_Witness ==
  /\ module = "project" /\ state = "present" /\ ~pr_exists
  /\ pc = "create_nodes" /\ outcome = "fail_json"
  /\ idx = 2 /\ Len(server.nodes) = 1
  /\ Len(nodes_spec) + Len(links_spec) = MaxSpecs

NodeCalls == CallsOf(calls, {"StartNodes", "StopNodes", "StartNode", "StopNode"})
\* nodes_state_verification was called on the project as the run fetched it.
Verified ==
  /\ module = "project" /\ state = "opened" /\ pr_exists /\ nodes_state /= None
  /\ pc \in {"one_by_one", "return"}

\* C31: node convergence acts only when some node is in the state opposite
\* to the target: otherwise it issues no node call and returns
\* changed=false, suspended nodes notwithstanding; when it acts it returns
\* changed=true under both strategies.
C31_ActsOnOppositeOnly ==
  Verified =>
    /\ Opposite(nodes_state) \notin StatusesOf(observed.nodes)
         => (NodeCalls = <<>> /\ ~changed /\ pc = "return")
    /\ (Opposite(nodes_state) \in StatusesOf(observed.nodes) /\ outcome = "exit_json")
         => (NodeCalls /= <<>> /\ changed)

\* C31 witness: target started, one node suspended and none stopped: the
\* run has ended with no node call and changed=false.
C31_Witness ==
  /\ Verified /\ nodes_state = "started"
  /\ "suspended" \in StatusesOf(observed.nodes)
  /\ "stopped" \notin StatusesOf(observed.nodes)
  /\ outcome = "exit_json" /\ ~changed /\ NodeCalls = <<>>

\* C32: state opened with no nodes_state: a project observed as not opened
\* gets OpenProject exactly once, no node action, and changed=true; a
\* project observed as opened gets no remote mutation and changed=false.
C32_OpenedWithoutNodesState ==
  (module = "project" /\ state = "opened" /\ nodes_state = None /\ pr_exists)
  => /\ Done => outcome = "exit_json"
     /\ (observed.status /= "opened" /\ Done)
          => (calls = <<Get, Open>> /\ changed /\ server.status = "opened")
     /\ observed.status = "opened"
          => (calls = <<Get>> /\ ~changed /\ ~mutated)

\* C32 witness: a closed project holding a stopped node has been opened and
\* reported as changed, the node untouched.
C32_Witness ==
  /\ module = "project" /\ state = "opened" /\ nodes_state = None /\ pr_exists
  /\ observed.status = "closed" /\ "stopped" \in StatusesOf(observed.nodes)
  /\ server.nodes = observed.nodes
  /\ outcome = "exit_json" /\ changed

\* C33: the first remote call of a run is the fetch of the project, and a
\* state-changing call is issued only if that fetch succeeded, except for
\* CreateProject (and the creations that follow it) with state present
\* after the fetch reported that the project does not exist.
C33_FetchBeforeMutation ==
  module = "project"
  => /\ calls /= <<>> => calls[1] = Get
     /\ \A i \in DOMAIN calls :
          calls[i].op \in Mutating
            => \/ pr_exists
               \/ /\ state = "present" /\ calls[2].op = "CreateProject"
                  /\ server.up

\* C34: in check mode a task of the project module that passed the
\* validation of its arguments ends successfully with changed=false and
\* issues no remote call, whatever the desired state and the server.
C34_CheckModeNoCall ==
  (module = "project" /\ check_mode /\ ~NoProjectRef)
  => /\ calls = <<>> /\ ~changed /\ ~mutated
     /\ pc \in {"args", "get"}
     /\ Done => outcome = "exit_json"
     /\ project = EmptyProject /\ observed = Unobserved

\* C34 witness: state present in check mode for a project the server does
\* not hold: the run has ended successfully and nothing was created.
C34_Witness ==
  /\ module = "project" /\ check_mode /\ state = "present"
  /\ server.up /\ ~server.exists
  /\ outcome = "exit_json" /\ calls = <<>>

Writes == CallsOf(calls, {"WriteFile"})
WriteOnce(text) == <<Call("WriteFile", <<text>>)>>
FirstRunDone == history /= <<>> /\ history[Len(history)].outcome = "exit_json"

\* C35: in gns3_node_file and gns3_project_file the content get_file returns
\* is the content on the server; a run of state present that reports a
\* result has written the data exactly once and reports changed=true when
\* that content differed from the data or the file was not found, and has
\* written nothing and reports changed=false otherwise; a run of state
\* absent that reports a result has written the empty string exactly once
\* and reports changed=true when the file held a non-empty content, and has
\* written nothing and reports changed=false otherwise; no run writes more
\* than once, and a run that follows a run of the same task that reported a
\* result writes nothing and reports changed=false.
C35_FileWrittenIffDiffers ==
  module \in FileModules =>
    /\ InFile("main") => file_data = remote_file
    /\ (outcome = "exit_json" /\ state = "present")
         => /\ changed <=> file_data /= data
            /\ file_data = None => changed
            /\ Writes = IF changed THEN WriteOnce(data) ELSE <<>>
            /\ remote_file = data
    /\ (outcome = "exit_json" /\ state = "absent")
         => /\ changed <=> file_data \notin {None, ""}
            /\ Writes = IF changed THEN WriteOnce("") ELSE <<>>
            /\ remote_file \in {None, ""}
    /\ Len(Writes) <= 1
    /\ FirstRunDone => (Writes = <<>> /\ ~changed)

\* C35 witness: a first run of state present wrote the data over a different
\* content and reported changed=true; the run after it read the file, wrote
\* nothing and reported changed=false.
C35_Witness ==
  /\ module = "node_file" /\ state = "present"
  /\ FirstRunDone /\ history[1].changed
  /\ outcome = "exit_json" /\ ~changed
  /\ CallsOf(calls, {"GetFile"}) /= <<>> /\ Writes = <<>>
  /\ remote_file = data /\ data /= ""

RemoteCalls == SelectSeq(calls, LAMBDA c : c.op /= "Sleep")
ObservedNodes == Len(observed.nodes)
Issued(c) == Len(SelectSeq(calls, LAMBDA d : d = c))
\* The calls that change a node, a project or a snapshot in one go.
Actions ==
  NodeActions \cup {"StartNodes", "StopNodes", "CloseProject", "DeleteProject",
                    "CreateProject", "CreateSnapshot", "DeleteSnapshot",
                    "RestoreSnapshot"}
\* An action is issued once, and once more only as the retry of gns3_node.
AtMostOneRetry ==
  \A i \in DOMAIN calls :
    calls[i].op \in Actions
      => Issued(calls[i]) <= (IF module = "node" /\ retry THEN 2 ELSE 1)
Terminates == (~Done) ~> Done

====
